---- MODULE Spec2Model ----
(***************************************************************************)
(* Signal-synthesis pipeline of the option-chain analyser:                 *)
(*   - SmartMoneyVerdictEngine   (backend/app/core/verdict.py)             *)
(*   - TradeStructureIdentifier  (backend/app/core/oi_analysis.py)         *)
(*   - OIVelocityEngine          (backend/app/core/oi_analysis.py)         *)
(*   - DealerExposureEngine      (backend/app/core/gex.py)                 *)
(*   - Black76Engine             (backend/app/core/black76.py)             *)
(*   - AngelOneSmartFetcher      (backend/app/data/smart_fetcher.py)       *)
(*   - TokenBucketRateLimiter    (backend/app/core/rate_limit.py)          *)
(*                                                                         *)
(* Number representation.  The code works on Python floats; the model      *)
(* works on integers with a fixed scale per quantity:                      *)
(*   confidence of a detection   in hundredths   (0.85  -> 85)             *)
(*   bull / bear running score   in hundredths   (15.6  -> 1560)           *)
(*   velocity_zscore             in tenths       (2.5   -> 25)             *)
(*   price change of identify    in tenths of %  (-0.3  -> -3)             *)
(*   atr_14_pct, spot, targets   in hundredths                             *)
(*   timestamps                  in seconds                                *)
(*   a velocity                  as an exact fraction <<num, den>>         *)
(*   gamma, vanna, charm         in thousandths  (0.002 -> 2)              *)
(*   delta, iv of a chain row    in hundredths   (0.5   -> 50)             *)
(*   open interest of a chain    in hundreds of contracts (1000 -> 10)     *)
(*   spot of the exposure engine in hundreds     (19000 -> 190)            *)
(*   gex, dex, vex and cex       as the floats of the code, bit for bit    *)
(*   gamma-flip level            in half points  (19050 -> 38100)          *)
(*   volatility of Black-76      in thousandths  (0.30  -> 300)            *)
(*   estimate of implied_vol.    by name: "0.0", "0.001", "0.30", "5.0",    *)
(*                               "inside" (any other float of the band)    *)
(*   time to expiry of Black-76  in hours        (1/365/24 years -> 1)     *)
(*   clock of the rate limiter   in ticks of 0.05 s (60 s -> 1200)         *)
(***************************************************************************)
EXTENDS Integers, Sequences, FiniteSets, TLC

VARIABLES
    ctx,          \* verdict engine: the ctx dict handed to generate_verdict
    structures,   \* verdict engine: ctx['structure_detections'], a list
    verdict,      \* verdict engine: what generate_verdict returned
    oi_changes,   \* identifier: the oi_changes dict, in insertion order
    price_change, \* identifier: price change of the period, tenths of a percent
    atm_strike,   \* identifier: the at-the-money strike
    identified,   \* identifier: outcome of identify (returned list / raised)
    history,      \* velocity engine: self.history, a deque(maxlen=60)
    interval,     \* velocity engine: seconds between two snapshots of the feed
    log,          \* velocity engine: every snapshot handed to add_snapshot, in order
    measured,     \* velocity engine: the last velocity(window_minutes) result
    trackers,     \* one OIVelocityEngine per key: key -> its self.history
    last_call,    \* trackers: the last method call, its key and what it returned
    option_chain, \* exposure engine: the option_chain list of row dicts
    gex_spot,     \* exposure engine: the spot argument, in hundreds
    exposures,    \* exposure engine: outcome of calculate_exposures
    flip_level,   \* exposure engine: outcome of gex_flip_level
    b76_args,     \* Black-76: the arguments market_price, F, K, T, sigma, option_type
    greeks,       \* Black-76: outcome of price_and_greeks(F, K, T, sigma, option_type)
    iv_run,       \* Black-76: the run of implied_volatility(market_price, F, K, T, option_type)
    cache,        \* fetcher: the redis entries option_chain:{symbol}:{expiry}, by symbol
    fetch,        \* fetcher: the invocations of get_option_chain and what each did so far
    clock,        \* rate limiter: time.time(), in ticks
    zset,         \* rate limiter: the redis sorted set ratelimit:{endpoint_type}:{identifier}
    callers       \* rate limiter: the callers of wait_and_acquire, in order of their clock read

verdictVars == <<ctx, structures, verdict>>

identifyVars == <<oi_changes, price_change, atm_strike, identified>>

velocityVars == <<history, interval, log, measured>>

trackerVars == <<trackers, last_call>>

gexVars == <<option_chain, gex_spot, exposures, flip_level>>

black76Vars == <<b76_args, greeks, iv_run>>

fetcherVars == <<cache, fetch>>

limiterVars == <<clock, zset, callers>>

vars == <<ctx, structures, verdict, oi_changes, price_change, atm_strike,
          identified, history, interval, log, measured, trackers, last_call,
          option_chain, gex_spot, exposures, flip_level, b76_args, greeks, iv_run,
          cache, fetch, clock, zset, callers>>

-----------------------------------------------------------------------------
(* Generic helpers *)

Min(a, b) == IF a < b THEN a ELSE b

Max(a, b) == IF a > b THEN a ELSE b

Abs(a) == IF a < 0 THEN -a ELSE a

\* dict.get(key, default)
Get(d, k, default) == IF k \in DOMAIN d THEN d[k] ELSE default

\* int(x) of a non-negative float held in hundredths: truncation
IntOfHundredths(x) == x \div 100

-----------------------------------------------------------------------------
(* Floats.  A Python float is an IEEE 754 binary64 number.  The model       *)
(* computes in exact arithmetic on scaled integers and fractions; where the *)
(* rounding of a float decides what the code does (int() of a sum, round(), *)
(* a comparison with 0) the float is computed bit for bit.  A Double is the *)
(* value s * m * 2^e with s the sign (-1, 0, 1) and m a natural of 53 bits  *)
(* (2^52 <= m < 2^53), or zero.  Naturals of more than 31 bits are held as  *)
(* little-endian sequences of limbs below LimbBase without leading zero     *)
(* limbs.  Overflow, underflow, infinities and NaN do not arise for the     *)
(* magnitudes the model computes with and are not represented.              *)

\* limbs of 14 bits: the product of two limbs stays below 2^31
LimbBase == 2 ^ 14

RECURSIVE Trim(_)
Trim(x) == IF x # <<>> /\ x[Len(x)] = 0 THEN Trim(SubSeq(x, 1, Len(x) - 1)) ELSE x

\* a natural below 2^31 as limbs
BigOfInt(n) == Trim(<<n % LimbBase, (n \div LimbBase) % LimbBase, n \div (LimbBase * LimbBase)>>)

\* limbs as an integer, for a natural below 2^31
RECURSIVE BigToInt(_)
BigToInt(x) == IF x = <<>> THEN 0 ELSE Head(x) + LimbBase * BigToInt(Tail(x))

RECURSIVE BigAddCarry(_, _, _)
BigAddCarry(a, b, c) ==
    IF a = <<>> /\ b = <<>> THEN (IF c = 0 THEN <<>> ELSE <<c>>)
    ELSE LET x == (IF a = <<>> THEN 0 ELSE Head(a)) + (IF b = <<>> THEN 0 ELSE Head(b)) + c
         IN  <<x % LimbBase>>
             \o BigAddCarry(IF a = <<>> THEN a ELSE Tail(a),
                            IF b = <<>> THEN b ELSE Tail(b), x \div LimbBase)

BigAdd(a, b) == BigAddCarry(a, b, 0)

\* a - b - c for a >= b + c, untrimmed
RECURSIVE BigSubBorrow(_, _, _)
BigSubBorrow(a, b, c) ==
    IF a = <<>> THEN <<>>
    ELSE LET x == Head(a) - (IF b = <<>> THEN 0 ELSE Head(b)) - c
         IN  <<x % LimbBase>>
             \o BigSubBorrow(Tail(a), IF b = <<>> THEN b ELSE Tail(b),
                             IF x < 0 THEN 1 ELSE 0)

BigSub(a, b) == Trim(BigSubBorrow(a, b, 0))

\* -1, 0, 1 as a < b, a = b, a > b
RECURSIVE BigCmpFrom(_, _, _)
BigCmpFrom(a, b, i) ==
    IF i = 0 THEN 0
    ELSE IF a[i] < b[i] THEN -1
    ELSE IF a[i] > b[i] THEN 1
    ELSE BigCmpFrom(a, b, i - 1)

BigCmp(a, b) ==
    IF Len(a) < Len(b) THEN -1
    ELSE IF Len(a) > Len(b) THEN 1
    ELSE BigCmpFrom(a, b, Len(a))

\* a * k + c for 0 <= k <= LimbBase
RECURSIVE BigMulSmall(_, _, _)
BigMulSmall(a, k, c) ==
    IF a = <<>> THEN (IF c = 0 THEN <<>> ELSE <<c>>)
    ELSE LET x == Head(a) * k + c
         IN  <<x % LimbBase>> \o BigMulSmall(Tail(a), k, x \div LimbBase)

RECURSIVE BigMul(_, _)
BigMul(a, b) ==
    IF a = <<>> \/ b = <<>> THEN <<>>
    ELSE BigAdd(Trim(BigMulSmall(a, Head(b), 0)),
                IF Tail(b) = <<>> THEN <<>> ELSE <<0>> \o BigMul(a, Tail(b)))

\* <<a \div k, a % k>> for 0 < k <= LimbBase; a from its top limb down,
\* r the remainder and q the quotient limbs so far
RECURSIVE BigDivSmallFrom(_, _, _, _, _)
BigDivSmallFrom(a, k, i, r, q) ==
    IF i = 0 THEN <<Trim(q), r>>
    ELSE BigDivSmallFrom(a, k, i - 1, (r * LimbBase + a[i]) % k,
                         <<(r * LimbBase + a[i]) \div k>> \o q)

BigDivSmall(a, k) == BigDivSmallFrom(a, k, Len(a), 0, <<>>)

Zeros(n) == [i \in 1..n |-> 0]

\* a * 2^n
BigShl(a, n) ==
    IF a = <<>> THEN <<>>
    ELSE Zeros(n \div 14) \o Trim(BigMulSmall(a, 2 ^ (n % 14), 0))

\* a \div 2^n
BigShr(a, n) ==
    IF n \div 14 >= Len(a) THEN <<>>
    ELSE BigDivSmall(SubSeq(a, n \div 14 + 1, Len(a)), 2 ^ (n % 14))[1]

\* the number of bits of a
BitLen(a) ==
    IF a = <<>> THEN 0
    ELSE 14 * (Len(a) - 1)
         + (CHOOSE n \in 1..14 : 2 ^ (n - 1) <= a[Len(a)] /\ a[Len(a)] < 2 ^ n)

Double(s, m, e) == [s |-> s, m |-> m, e |-> e]

FZero == Double(0, <<>>, 0)

\* m / 2^d to the nearest natural, ties to the even one
BigRoundTie(q, cmp) ==
    IF cmp > 0 \/ (cmp = 0 /\ q # <<>> /\ q[1] % 2 = 1) THEN BigAdd(q, <<1>>) ELSE q

BigRoundQuotient(m, d, q) ==
    BigRoundTie(q, BigCmp(BigSub(m, BigShl(q, d)), BigShl(<<1>>, d - 1)))

BigRoundShr(m, d) == IF d = 0 THEN m ELSE BigRoundQuotient(m, d, BigShr(m, d))

\* s * m * 2^e rounded to the nearest Double (53 bits), ties to even
FRoundCarry(s, r, e) ==
    IF BitLen(r) > 53 THEN Double(s, BigShr(r, 1), e + 1) ELSE Double(s, r, e)

FRoundBits(s, m, e, len) ==
    IF len <= 53 THEN Double(s, BigShl(m, 53 - len), e - (53 - len))
    ELSE FRoundCarry(s, BigRoundShr(m, len - 53), e + (len - 53))

FRound(s, m, e) ==
    IF m = <<>> \/ s = 0 THEN FZero ELSE FRoundBits(s, m, e, BitLen(m))

\* float(n) for an integer |n| < 2^31
FInt(n) ==
    IF n = 0 THEN FZero
    ELSE FRound(IF n < 0 THEN -1 ELSE 1, BigOfInt(IF n < 0 THEN -n ELSE n), 0)

FNeg(a) == Double(-a.s, a.m, a.e)

\* sx * x * 2^e + sy * y * 2^e for x, y # 0
FAddAligned(sx, x, sy, y, e, cmp) ==
    FRound(IF sx = sy \/ cmp > 0 THEN sx ELSE sy,
           IF sx = sy THEN BigAdd(x, y)
           ELSE IF cmp > 0 THEN BigSub(x, y)
           ELSE IF cmp < 0 THEN BigSub(y, x)
           ELSE <<>>, e)

\* hi + lo for hi.e - lo.e = gap >= 0.  An operand more than 64 binary
\* places below the other only decides the direction of rounding: it is
\* moved up to 64 places below.
FAddOrdered(hi, lo, gap) ==
    FAddAligned(hi.s, BigShl(hi.m, Min(gap, 64)),
                lo.s, IF gap > 64 THEN <<1>> ELSE lo.m,
                hi.e - Min(gap, 64),
                BigCmp(BigShl(hi.m, Min(gap, 64)), IF gap > 64 THEN <<1>> ELSE lo.m))

\* a + b
FAdd(a, b) ==
    IF a.s = 0 THEN b
    ELSE IF b.s = 0 THEN a
    ELSE IF a.e >= b.e THEN FAddOrdered(a, b, a.e - b.e)
    ELSE FAddOrdered(b, a, b.e - a.e)

FSub(a, b) == FAdd(a, FNeg(b))

FMul(a, b) ==
    IF a.s = 0 \/ b.s = 0 THEN FZero
    ELSE FRound(a.s * b.s, BigMul(a.m, b.m), a.e + b.e)

\* -1, 0, 1 as a < b, a = b, a > b
FCmp(a, b) == FSub(a, b).s

\* max(a, b) of Python: a unless b is greater
FMax(a, b) == IF FCmp(b, a) > 0 THEN b ELSE a

\* <<q, r>> with a * 2^n = q * b + r and r < b, for a < b, bit by bit (the
\* quotient so far is taken up in every step, so that it is formed bit by bit)
RECURSIVE BigDivBits(_, _, _, _)
BigDivBits(r, b, n, q) ==
    IF n = 0 THEN <<q, r>>
    ELSE IF Len(q) >= 0 /\ BigCmp(BigAdd(r, r), b) >= 0
    THEN BigDivBits(BigSub(BigAdd(r, r), b), b, n - 1, BigAdd(BigAdd(q, q), <<1>>))
    ELSE BigDivBits(BigAdd(r, r), b, n - 1, BigAdd(q, q))

\* a / b for b # 0: 56 quotient bits and a last bit for a remainder.  A
\* divisor whose mantissa is one limb is divided by directly.
FDivRounded(s, q, sticky, e) ==
    FRound(s, BigAdd(BigShl(q, 1), BigOfInt(sticky)), e)

FDivShort(a, b, qr) ==
    FDivRounded(a.s * b.s, qr[1], IF qr[2] = 0 THEN 0 ELSE 1, a.e - b.e - 42 - 57)

FDivLong(a, b, qr) ==
    FDivRounded(a.s * b.s, qr[1], IF qr[2] = <<>> THEN 0 ELSE 1, a.e - b.e - 57)

FDiv(a, b) ==
    IF a.s = 0 THEN FZero
    ELSE IF BigShl(BigShr(b.m, 42), 42) = b.m
    THEN FDivShort(a, b, BigDivSmall(BigShl(a.m, 56), BigShr(b.m, 42)[1]))
    ELSE IF BigCmp(a.m, b.m) >= 0
    THEN FDivLong(a, b, BigDivBits(BigSub(a.m, b.m), b.m, 56, <<1>>))
    ELSE FDivLong(a, b, BigDivBits(a.m, b.m, 56, <<>>))

\* int(a): truncation towards zero, for |a| < 2^31
FInt2Int(a) ==
    IF a.s = 0 THEN 0
    ELSE a.s * BigToInt(IF a.e >= 0 THEN BigShl(a.m, a.e) ELSE BigShr(a.m, -a.e))

\* round(a, 2) in hundredths, for |a| < 2^31 / 100: Python rounds the
\* binary value of the float correctly, an exact tie to the even hundredth
PyRound2(a) ==
    IF a.s = 0 THEN 0
    ELSE a.s * BigToInt(IF a.e >= 0 THEN BigShl(BigMulSmall(a.m, 100, 0), a.e)
                        ELSE BigRoundShr(BigMulSmall(a.m, 100, 0), -a.e))

\* the float nearest to k / 100: a literal or a value of two decimals
FHundredths(k) == FDiv(FInt(k), FInt(100))

-----------------------------------------------------------------------------
(* StructureDetection (oi_analysis.py) as a record.  The explanation text   *)
(* and the extra 'moneyness' entry of a naked call's buy_leg are formatted  *)
(* output only and are left out.  A leg that is None is NoLeg.              *)

NoLeg == [strike |-> -1, type |-> "NONE"]

Leg(strike, type) == [strike |-> strike, type |-> type]

Detection(structure, confidence, buy, sell, premium, bias, conviction) ==
    [structure |-> structure, confidence |-> confidence,
     buy_leg |-> buy, sell_leg |-> sell,
     net_premium_direction |-> premium,
     directional_bias |-> bias, conviction |-> conviction]

-----------------------------------------------------------------------------
(* SmartMoneyVerdictEngine (verdict.py) *)

\* entry_strike = None
NoStrike == -1

IsStraddle(s) == s.structure = "STRADDLE"

IsHedge(s) == s.structure = "PROTECTIVE_PUT_HEDGE"

_compute_trap_score(c, structs) ==
    LET t1 == IF Get(c, "oi_signal", "NONE") = "LONG_UNWINDING"
                 /\ Get(c, "price_change_today", 0) > 3 THEN 40 ELSE 0
        t2 == IF Len(SelectSeq(structs, IsStraddle)) > 0
                 /\ Get(c, "days_to_expiry", 10) < 2 THEN 35 ELSE 0
        t3 == IF Len(SelectSeq(structs, IsHedge)) > 2 THEN 30 ELSE 0
        t4 == IF Get(c, "atm_distance_pct", 0) > 8 THEN 25 ELSE 0
        t5 == IF Get(c, "iv_rank", 50) > 80 THEN 20 ELSE 0
    IN  Min(100, t1 + t2 + t3 + t4 + t5)

\* {'HIGH':20,'MEDIUM':12,'LOW':6}.get(s.conviction, 10)
ConvictionWeight(conviction) ==
    CASE conviction = "HIGH"   -> 20
      [] conviction = "MEDIUM" -> 12
      [] conviction = "LOW"    -> 6
      [] OTHER                 -> 10

\* the for-loop over structures of _bull/_bear_signal_strength in exact
\* arithmetic, in hundredths
RECURSIVE StructureScore(_, _)
StructureScore(structs, bias) ==
    IF structs = <<>> THEN 0
    ELSE (IF Head(structs).directional_bias = bias
          THEN ConvictionWeight(Head(structs).conviction) * Head(structs).confidence
          ELSE 0)
         + StructureScore(Tail(structs), bias)

\* a float with an integer value
IsWhole(a) == a.s = 0 \/ a.e >= 0 \/ BigShl(BigShr(a.m, -a.e), -a.e) = a.m

\* the float weight * s.confidence and whether it is a whole number, for
\* every weight and every confidence of two decimals in [0, 1]
WeightedTerm(product) == [product |-> product, whole |-> IsWhole(product)]

WeightedConfidences ==
    [w \in {20, 12, 6, 10} |->
        [k \in 0..100 |-> WeightedTerm(FMul(FInt(w), FHundredths(k)))]]

WeightedConfidence(s) ==
    IF s.confidence \in 0..100
    THEN WeightedConfidences[ConvictionWeight(s.conviction)][s.confidence]
    ELSE WeightedTerm(FMul(FInt(ConvictionWeight(s.conviction)),
                           FHundredths(s.confidence)))

\* whether every weight * s.confidence the loop adds is a whole number
RECURSIVE WholeTerms(_, _)
WholeTerms(structs, bias) ==
    \/ structs = <<>>
    \/ /\ Head(structs).directional_bias = bias => WeightedConfidence(Head(structs)).whole
       /\ WholeTerms(Tail(structs), bias)

\* the for-loop over structures in floats: score += weight * s.confidence
RECURSIVE FloatStructureScore(_, _, _)
FloatStructureScore(structs, bias, score) ==
    IF structs = <<>> THEN score
    ELSE FloatStructureScore(Tail(structs), bias,
             IF Head(structs).directional_bias = bias
             THEN FAdd(score, WeightedConfidence(Head(structs)).product)
             ELSE score)

\* int(score) for the score the statements before the loop (an int), the
\* loop and the statements after it add up.  The float sum is within 1e-9
\* of the exact sum, so int() truncates the exact sum unless that is a
\* whole number the float sum may fall short of; whole terms add exactly.
IntOfScore(before, structs, bias, after) ==
    LET exact == 100 * (before + after[1] + after[2] + after[3] + after[4])
                 + StructureScore(structs, bias)
    IN  IF exact % 100 # 0 \/ WholeTerms(structs, bias)
        THEN IntOfHundredths(exact)
        ELSE FInt2Int(FAdd(FAdd(FAdd(FAdd(
                 FloatStructureScore(structs, bias, FInt(before)),
                 FInt(after[1])), FInt(after[2])), FInt(after[3])), FInt(after[4])))

_bull_signal_strength(c, structs) ==
    LET oi   == Get(c, "oi_signal", "NONE")
        sOI  == IF oi = "LONG_BUILDUP" THEN 25
                ELSE IF oi = "SHORT_COVERING" THEN 15 ELSE 0
        sGex == IF Get(c, "gex", 0) < -20000000 THEN 15 ELSE 0
        sFii == IF Get(c, "fii_net_change", 0) > 5000 THEN 15 ELSE 0
        sVwp == IF Get(c, "vwap_position", "NONE") = "ABOVE" THEN 10 ELSE 0
        sRsi == IF Get(c, "rsi_14", 50) < 40 THEN 8 ELSE 0
        sVex == IF Get(c, "vex", 0) < 0 THEN 8 ELSE 0
    IN  IntOfScore(sOI + sGex, structs, "BULLISH", <<sFii, sVwp, sRsi, sVex>>)

BearBiasCountsNonBullish(c, structs) ==
    LET oi   == Get(c, "oi_signal", "NONE")
        sOI  == IF oi = "SHORT_BUILDUP" THEN 25
                ELSE IF oi = "LONG_UNWINDING" THEN 15 ELSE 0
        sFii == IF Get(c, "fii_net_change", 0) < -5000 THEN 15 ELSE 0
        sVwp == IF Get(c, "vwap_position", "NONE") = "BELOW" THEN 10 ELSE 0
        sRsi == IF Get(c, "rsi_14", 50) > 70 THEN 8 ELSE 0
    IN  IntOfHundredths(100 * (sOI + sFii + sVwp + sRsi)
                        + StructureScore(structs, "BEARISH")
                        + StructureScore(structs, "NEUTRAL"))

_bear_signal_strength(c, structs) ==
    LET oi   == Get(c, "oi_signal", "NONE")
        sOI  == IF oi = "SHORT_BUILDUP" THEN 25
                ELSE IF oi = "LONG_UNWINDING" THEN 15 ELSE 0
        sFii == IF Get(c, "fii_net_change", 0) < -5000 THEN 15 ELSE 0
        sVwp == IF Get(c, "vwap_position", "NONE") = "BELOW" THEN 10 ELSE 0
        sRsi == IF Get(c, "rsi_14", 50) > 70 THEN 8 ELSE 0
    IN  IntOfScore(sOI, structs, "BEARISH", <<sFii, sVwp, sRsi, 0>>)

\* _recommend_entry: <<entry_type, entry_strike>>
_recommend_entry(v, c) ==
    LET atm     == Get(c, "atm_strike", 0)
        iv_rank == Get(c, "iv_rank", 50)
        dte     == Get(c, "days_to_expiry", 7)
    IN  IF v \in {"STRONG_BUY", "BUY_WATCH"}
        THEN IF iv_rank > 60 \/ dte < 3 THEN <<"BULL CALL SPREAD", atm>>
             ELSE IF iv_rank < 35 THEN <<"NAKED CE BUY", atm>>
             ELSE <<"STOCK / CE BUY", atm>>
        ELSE IF v = "STRONG_SELL"
        THEN IF iv_rank > 60 THEN <<"BEAR PUT SPREAD", atm>>
             ELSE <<"NAKED PE BUY", atm>>
        ELSE <<"WAIT", NoStrike>>

\* round(atr * factor, 2) in hundredths, for atr in hundredths and the
\* factor 2.5 or 1.5 in tenths.  The exact product has three decimals: a
\* last decimal of 0 is the result, a last decimal of 5 is a tie between two
\* hundredths, which round() settles on the float product.
RoundedMove(atr, tenths) ==
    IF (atr * tenths) % 10 = 0 THEN (atr * tenths) \div 10
    ELSE PyRound2(FMul(FHundredths(atr), FDiv(FInt(tenths), FInt(10))))

\* _estimate_target, in hundredths of a percent; atr_14_pct in hundredths
_estimate_target(v, c) ==
    IF v \in {"STRONG_BUY", "STRONG_SELL", "BUY_WATCH", "SELL_WATCH"}
    THEN RoundedMove(Get(c, "atr_14_pct", 200),
                     IF v \in {"STRONG_BUY", "STRONG_SELL"} THEN 25 ELSE 15)
    ELSE 0

\* round(spot * (1 + sign * atr/100 * 0.8), 2) on floats, in hundredths
FloatStopLoss(spot, atr, sign) ==
    PyRound2(FMul(FHundredths(spot),
                  IF sign < 0
                  THEN FSub(FInt(1), FMul(FDiv(FHundredths(atr), FInt(100)), FHundredths(80)))
                  ELSE FAdd(FInt(1), FMul(FDiv(FHundredths(atr), FInt(100)), FHundredths(80)))))

\* round(spot * (1 + sign * atr/100 * 0.8), 2) in hundredths.  The exact
\* value is spot * (100000 + sign * 8 * atr) / 100000 hundredths and the
\* float is within 1e-8 of it, so the exact value decides the rounding
\* unless it is a tie between two hundredths.
StopLoss(spot, atr, sign) ==
    LET factor == 100000 + sign * 8 * atr
        product == BigMul(BigOfInt(Abs(spot)), BigOfInt(Abs(factor)))
        tens == BigDivSmall(product, 10)
        whole == BigDivSmall(tens[1], 10000)
        rest == whole[2] * 10 + tens[2]
    IN  IF spot < 0 \/ factor < 0 \/ rest = 50000 THEN FloatStopLoss(spot, atr, sign)
        ELSE BigToInt(whole[1]) + (IF rest > 50000 THEN 1 ELSE 0)

\* _compute_stop_loss, in hundredths; spot_price and atr_14_pct in hundredths
_compute_stop_loss(v, c) ==
    LET spot == Get(c, "spot_price", 10000)
        atr  == Get(c, "atr_14_pct", 200)
    IN  IF v \in {"STRONG_BUY", "BUY_WATCH", "STRONG_SELL", "SELL_WATCH"}
        THEN StopLoss(spot, atr, IF v \in {"STRONG_BUY", "BUY_WATCH"} THEN -1 ELSE 1)
        ELSE 0

_assess_risk(c) ==
    IF Get(c, "gex", 0) < -50000000 /\ Get(c, "iv_rank", 50) < 30
    THEN "HIGH REWARD/RISK"
    ELSE IF Get(c, "days_to_expiry", 10) < 2 THEN "HIGH (near expiry)"
    ELSE "MEDIUM"

\* s[:n]
Take(s, n) == SubSeq(s, 1, Min(n, Len(s)))

\* the reasons of _get_key_reasons without the final cut
KeyReasonsUncut(c, structs) ==
    LET r1 == IF Get(c, "oi_signal", "NONE") \in {"LONG_BUILDUP", "SHORT_COVERING"}
              THEN <<"OI">> ELSE <<>>
        r2 == IF Get(c, "velocity_zscore", 0) > 20 THEN <<"VELOCITY">> ELSE <<>>
        r3 == [i \in 1..Min(2, Len(structs)) |-> "STRUCTURE"]
        r4 == IF Get(c, "fii_net_change", 0) > 0 THEN <<"FII">> ELSE <<>>
        r5 == IF Get(c, "gex", 0) < 0 THEN <<"GEX">> ELSE <<>>
    IN  r1 \o r2 \o r3 \o r4 \o r5

\* _get_key_reasons: one tag per appended reason, in order, cut to 4
_get_key_reasons(c, structs) ==
    LET r1 == IF Get(c, "oi_signal", "NONE") \in {"LONG_BUILDUP", "SHORT_COVERING"}
              THEN <<"OI">> ELSE <<>>
        r2 == IF Get(c, "velocity_zscore", 0) > 20 THEN <<"VELOCITY">> ELSE <<>>
        r3 == [i \in 1..Min(2, Len(structs)) |-> "STRUCTURE"]
        r4 == IF Get(c, "fii_net_change", 0) > 0 THEN <<"FII">> ELSE <<>>
        r5 == IF Get(c, "gex", 0) < 0 THEN <<"GEX">> ELSE <<>>
    IN  Take(r1 \o r2 \o r3 \o r4 \o r5, 4)

\* the trap reasons without the straddle reason
TrapReasonsWithoutStraddle(c, structs) ==
    (IF Get(c, "iv_rank", 0) > 80 THEN <<"IV_RANK">> ELSE <<>>)
    \o (IF Len(SelectSeq(structs, IsHedge)) > 0 THEN <<"HEDGING">> ELSE <<>>)

\* _get_trap_reasons
_get_trap_reasons(c, structs) ==
    (IF Get(c, "iv_rank", 0) > 80 THEN <<"IV_RANK">> ELSE <<>>)
    \o (IF Len(SelectSeq(structs, IsHedge)) > 0 THEN <<"HEDGING">> ELSE <<>>)
    \o (IF Len(SelectSeq(structs, IsStraddle)) > 0 THEN <<"STRADDLE">> ELSE <<>>)

\* _get_red_flags; pcr in tenths
_get_red_flags(c) ==
    (IF Get(c, "days_to_expiry", 10) < 2 THEN <<"NEAR_EXPIRY">> ELSE <<>>)
    \o (IF Get(c, "iv_rank", 50) > 70 THEN <<"IV_EXPENSIVE">> ELSE <<>>)
    \o (IF Get(c, "pcr", 10) > 18 \/ Get(c, "pcr", 10) < 4
        THEN <<"PCR_EXTREME">> ELSE <<>>)

SmartMoneyVerdict(v, conf, holding, target, risk, etype, estrike, stop, reasons, flags) ==
    [verdict |-> v, confidence_pct |-> conf, holding_period |-> holding,
     target_move_pct |-> target, risk_level |-> risk,
     entry_type |-> etype, entry_strike |-> estrike,
     stop_loss_level |-> stop, key_reasons |-> reasons, red_flags |-> flags]

\* the early return of generate_verdict (lines 53-61)
TrapVerdict(c, structs, trap_score) ==
    SmartMoneyVerdict("TRAP_WARNING", trap_score, "N/A", 0, "HIGH", "SKIP",
                      NoStrike, 0, <<>>, _get_trap_reasons(c, structs))

\* the if/elif chain of generate_verdict (lines 69-88):
\* <<verdict, confidence, holding>>
SelectStrongNeedsOnlyWatchMomentum(net_direction, score, vel_z) ==
    IF net_direction > 35 /\ score > 60
    THEN <<"STRONG_BUY", Min(95, 60 + net_direction \div 2),
           IF vel_z > 25 THEN "1-3 DAYS" ELSE "INTRADAY">>
    ELSE IF net_direction > 20 /\ score > 60
    THEN <<"BUY_WATCH", Min(80, 50 + net_direction), "1-5 DAYS">>
    ELSE IF net_direction < -35 /\ score > 60
    THEN <<"STRONG_SELL", Min(95, 60 + Abs(net_direction) \div 2), "1-3 DAYS">>
    ELSE IF net_direction < -20 /\ score > 60
    THEN <<"SELL_WATCH", Min(80, 50 + Abs(net_direction)), "1-5 DAYS">>
    ELSE <<"NEUTRAL", 40, "WAIT">>

SelectVerdict(net_direction, score, vel_z) ==
    IF net_direction > 35 /\ score > 75
    THEN <<"STRONG_BUY", Min(95, 60 + net_direction \div 2),
           IF vel_z > 25 THEN "1-3 DAYS" ELSE "INTRADAY">>
    ELSE IF net_direction > 20 /\ score > 60
    THEN <<"BUY_WATCH", Min(80, 50 + net_direction), "1-5 DAYS">>
    ELSE IF net_direction < -35 /\ score > 75
    THEN <<"STRONG_SELL", Min(95, 60 + Abs(net_direction) \div 2), "1-3 DAYS">>
    ELSE IF net_direction < -20 /\ score > 60
    THEN <<"SELL_WATCH", Min(80, 50 + Abs(net_direction)), "1-5 DAYS">>
    ELSE <<"NEUTRAL", 40, "WAIT">>

\* the SmartMoneyVerdict built for the selection sel (lines 90-104)
SelectedVerdict(c, structs, sel) ==
    SmartMoneyVerdict(sel[1], sel[2], sel[3],
                      _estimate_target(sel[1], c), _assess_risk(c),
                      _recommend_entry(sel[1], c)[1], _recommend_entry(sel[1], c)[2],
                      _compute_stop_loss(sel[1], c),
                      _get_key_reasons(c, structs), _get_red_flags(c))

\* the part of generate_verdict after the trap filter (lines 63-104)
DirectionalVerdict(c, structs) ==
    LET score         == Get(c, "momentum_score", 0)
        vel_z         == Get(c, "velocity_zscore", 0)
        bull_score    == _bull_signal_strength(c, structs)
        bear_score    == _bear_signal_strength(c, structs)
        net_direction == bull_score - bear_score
    IN  SelectedVerdict(c, structs, SelectVerdict(net_direction, score, vel_z))

TrapAtSeventyToo(c, structs) ==
    LET trap_score == _compute_trap_score(c, structs)
    IN  IF trap_score >= 70 THEN TrapVerdict(c, structs, trap_score)
        ELSE DirectionalVerdict(c, structs)

generate_verdict(c, structs) ==
    LET trap_score == _compute_trap_score(c, structs)
    IN  IF trap_score > 70 THEN TrapVerdict(c, structs, trap_score)
        ELSE DirectionalVerdict(c, structs)

-----------------------------------------------------------------------------
(* TradeStructureIdentifier (oi_analysis.py)                                *)
(*                                                                          *)
(* oi_changes is a dict {(strike, type): change}; Python dicts keep         *)
(* insertion order and the loops of identify follow it, so the dict is a    *)
(* list of entries [strike, type, change] with pairwise distinct keys.      *)

\* a function that returned None
NoDetection == Detection("NONE", 0, NoLeg, NoLeg, "NONE", "NONE", "NONE")

KeyOf(e) == <<e.strike, e.type>>

\* oi_changes.get(key, 0) / oi_changes[key]
RECURSIVE OIChange(_, _)
OIChange(oi, key) ==
    IF oi = <<>> THEN 0
    ELSE IF KeyOf(Head(oi)) = key THEN Head(oi).change
    ELSE OIChange(Tail(oi), key)

\* the significance test with the floor itself kept
IsSignificantFromFiveHundred(e) == Abs(e.change) >= 500 /\ e.change # 0

IsSignificant(e) == Abs(e.change) > 500 /\ e.change # 0

\* _filter_significant
_filter_significant(oi) == SelectSeq(oi, IsSignificant)

\* the test of the inner loop of _find_correlated_pairs for keys k1, k2
\* (k1 earlier in the dict): magnitude_ratio = min / max(|c1|, |c2| + 1) > 0.4
IsCorrelatedAboveSixTenths(oi, k1, k2) ==
    LET change1 == OIChange(oi, k1)
        change2 == OIChange(oi, k2)
        same_type == k1[2] = k2[2]
        same_direction == (change1 > 0 /\ change2 > 0) \/ (change1 < 0 /\ change2 < 0)
    IN  /\ same_type
        /\ same_direction
        /\ 10 * Min(Abs(change1), Abs(change2))
             > 6 * Max(Abs(change1), Abs(change2) + 1)

IsCorrelated(oi, k1, k2) ==
    LET change1 == OIChange(oi, k1)
        change2 == OIChange(oi, k2)
        same_type == k1[2] = k2[2]
        same_direction == (change1 > 0 /\ change2 > 0) \/ (change1 < 0 /\ change2 < 0)
    IN  /\ same_type
        /\ same_direction
        /\ 10 * Min(Abs(change1), Abs(change2))
             > 4 * Max(Abs(change1), Abs(change2) + 1)

\* the two nested loops: pairs (i, j), i < j, in dict order
RECURSIVE PairsFrom(_, _, _, _)
PairsFrom(sig, oi, i, j) ==
    IF i > Len(sig) THEN <<>>
    ELSE IF j > Len(sig) THEN PairsFrom(sig, oi, i + 1, i + 2)
    ELSE (IF IsCorrelated(oi, KeyOf(sig[i]), KeyOf(sig[j]))
          THEN << <<KeyOf(sig[i]), KeyOf(sig[j])>> >> ELSE <<>>)
         \o PairsFrom(sig, oi, i, j + 1)

\* _find_correlated_pairs
_find_correlated_pairs(significant, oi) == PairsFrom(significant, oi, 1, 2)

\* _classify_spread; atm in the unit of the strikes
_classify_spread(pair, oi, atm) ==
    LET s1 == pair[1][1]
        t1 == pair[1][2]
        s2 == pair[2][1]
        t2 == pair[2][2]
        change1 == OIChange(oi, pair[1])
        change2 == OIChange(oi, pair[2])
        lower_strike == Min(s1, s2)
        upper_strike == Max(s1, s2)
        both_calls == t1 = "CE" /\ t2 = "CE"
        both_puts  == t1 = "PE" /\ t2 = "PE"
        \* ratio = max / max(min, 1) > 2.5
        is_ratio_spread ==
            2 * Max(Abs(change1), Abs(change2))
              > 5 * Max(Min(Abs(change1), Abs(change2)), 1)
        \* abs(s1 - atm) + abs(s2 - atm) < atm * 0.03
        near_atm == 100 * (Abs(s1 - atm) + Abs(s2 - atm)) < 3 * atm
    IN  IF both_calls
        THEN IF is_ratio_spread
             THEN Detection("CALL_RATIO_SPREAD", 72, Leg(lower_strike, "CE"),
                            Leg(upper_strike, "CE"),
                            IF change2 > change1 THEN "CREDIT" ELSE "DEBIT",
                            "BULLISH", "MEDIUM")
             ELSE Detection("BULL_CALL_SPREAD", 80, Leg(lower_strike, "CE"),
                            Leg(upper_strike, "CE"), "DEBIT", "BULLISH", "HIGH")
        ELSE IF both_puts
        THEN Detection("BEAR_PUT_SPREAD", 80, Leg(upper_strike, "PE"),
                       Leg(lower_strike, "PE"), "DEBIT", "BEARISH", "HIGH")
        ELSE IF t1 # t2
        THEN IF near_atm
             THEN Detection("STRADDLE", 75, Leg(s1, "BOTH"), NoLeg,
                            "DEBIT", "NEUTRAL", "HIGH")
             ELSE Detection("STRANGLE_BUY", 70, Leg(Min(s1, s2), "PE/CE"), NoLeg,
                            "DEBIT", "NEUTRAL", "MEDIUM")
        ELSE NoDetection

\* _classify_naked for atm > 0; price_chg in tenths of a percent.
\* moneyness = (strike - atm) / atm * 100 is compared after multiplying by atm.
_classify_naked(e, atm, price_chg) ==
    LET strike   == e.strike
        opt_type == e.type
        change   == e.change
        m_num    == 100 * (strike - atm)          \* moneyness * atm
        is_otm_put     == opt_type = "PE" /\ m_num < 0
        is_writer_call == opt_type = "CE" /\ change > 0 /\ price_chg < -3
        is_writer_put  == opt_type = "PE" /\ change > 0 /\ price_chg > 3
        is_hedge       == is_otm_put /\ Abs(m_num) > 5 * atm /\ price_chg > 10
    IN  IF is_hedge
        THEN Detection("PROTECTIVE_PUT_HEDGE", 65, Leg(strike, "PE"), NoLeg,
                       "DEBIT", "NEUTRAL", "LOW")
        ELSE IF is_writer_call
        THEN Detection("BEARISH_CALL_WRITE", 75, NoLeg, Leg(strike, "CE"),
                       "CREDIT", "BEARISH", "HIGH")
        ELSE IF is_writer_put
        THEN Detection("BULLISH_PUT_WRITE", 78, NoLeg, Leg(strike, "PE"),
                       "CREDIT", "BULLISH", "HIGH")
        ELSE IF opt_type = "CE" /\ change > 0
        THEN Detection("NAKED_CALL_BUY", IF m_num < 5 * atm THEN 85 ELSE 70,
                       Leg(strike, "CE"), NoLeg, "DEBIT", "BULLISH",
                       IF Abs(m_num) < 3 * atm THEN "HIGH" ELSE "MEDIUM")
        ELSE IF opt_type = "PE" /\ change > 0
        THEN Detection("NAKED_PUT_BUY", IF Abs(m_num) < 5 * atm THEN 85 ELSE 70,
                       Leg(strike, "PE"), NoLeg, "DEBIT", "BEARISH", "HIGH")
        ELSE NoDetection

\* Step 3 of identify: the detections of the pairs, in order
RECURSIVE SpreadDetections(_, _, _)
SpreadDetections(pairs, oi, atm) ==
    IF pairs = <<>> THEN <<>>
    ELSE LET det == _classify_spread(Head(pairs), oi, atm)
         IN  (IF det # NoDetection THEN <<det>> ELSE <<>>)
             \o SpreadDetections(Tail(pairs), oi, atm)

\* processed_strikes after Step 3
ProcessedStrikes(pairs, oi, atm) ==
    UNION { {pairs[i][1], pairs[i][2]} :
              i \in { n \in 1..Len(pairs) : _classify_spread(pairs[n], oi, atm) # NoDetection } }

\* Step 4 of identify: the significant entries left for _classify_naked
Leftovers(significant, processed) ==
    LET Unprocessed(e) == KeyOf(e) \notin processed
    IN  SelectSeq(significant, Unprocessed)

RECURSIVE NakedDetections(_, _, _)
NakedDetections(solo, atm, price_chg) ==
    IF solo = <<>> THEN <<>>
    ELSE LET det == _classify_naked(Head(solo), atm, price_chg)
         IN  (IF det # NoDetection THEN <<det>> ELSE <<>>)
             \o NakedDetections(Tail(solo), atm, price_chg)

Returned(dets) == [status |-> "returned", detections |-> dets]

Raised(error) == [status |-> error, detections |-> <<>>]

NotCalled == [status |-> "not called", detections |-> <<>>]

\* identify(symbol, oi_changes, price_change, atm_strike, lot_size).
\* _classify_naked divides by atm on its first line: with atm = 0 the call for
\* the first leftover entry raises ZeroDivisionError out of identify.
identify(oi, price_chg, atm) ==
    LET significant == _filter_significant(oi)
        spread_pairs == _find_correlated_pairs(significant, oi)
        processed == ProcessedStrikes(spread_pairs, oi, atm)
        solo == Leftovers(significant, processed)
    IN  IF significant = <<>> THEN Returned(<<>>)
        ELSE IF solo # <<>> /\ atm = 0 THEN Raised("ZeroDivisionError")
        ELSE Returned(SpreadDetections(spread_pairs, oi, atm)
                      \o NakedDetections(solo, atm, price_chg))

-----------------------------------------------------------------------------
(* OIVelocityEngine (oi_analysis.py)                                        *)
(*                                                                          *)
(* history holds tuples <<timestamp, oi, volume>>.  A velocity is the exact *)
(* fraction [num, den] (den > 0) of the float the code returns.             *)

\* deque(maxlen=60)
HistoryMaxLen == 60

Fraction(n, d) == [num |-> n, den |-> d]

\* the last n elements of s: list(s)[-n:], 0 < n
LastN(s, n) == SubSeq(s, Len(s) - Min(n, Len(s)) + 1, Len(s))

AppendNoEviction(h, snapshot) ==
    Append(h, <<snapshot.timestamp, snapshot.oi, snapshot.volume>>)

\* add_snapshot: deque.append on a deque with maxlen drops from the left
add_snapshot(h, snapshot) ==
    LastN(Append(h, <<snapshot.timestamp, snapshot.oi, snapshot.volume>>),
          HistoryMaxLen)

VelocityOverWholeHistory(h, window_minutes) ==
    IF Len(h) < 2 THEN Fraction(0, 1)
    ELSE Fraction((h[Len(h)][2] - h[1][2]) * 60,
                  Max(h[Len(h)][1] - h[1][1], 60))

\* velocity(window_minutes): delta_oi / max(delta_t, 1) with delta_t in
\* minutes, i.e. (delta_oi * 60) / max(delta_t_seconds, 60)
velocity(h, window_minutes) ==
    IF Len(h) < 2 THEN Fraction(0, 1)
    ELSE LET window_bars == Max(1, window_minutes \div 3)
             recent == LastN(h, Min(window_bars + 1, Len(h)))
         IN  IF Len(recent) < 2 THEN Fraction(0, 1)
             ELSE Fraction((recent[Len(recent)][2] - recent[1][2]) * 60,
                           Max(recent[Len(recent)][1] - recent[1][1], 60))

-----------------------------------------------------------------------------
(* OIVelocityEngine: the remaining read methods.  Floats are exact          *)
(* fractions; a z-score is the pair (diff, variance) standing for           *)
(* diff / sqrt(variance).                                                   *)

RECURSIVE Gcd(_, _)
Gcd(a, b) == IF b = 0 THEN a ELSE Gcd(b, a % b)

\* the fraction in lowest terms
Normalize(f) ==
    LET g == Gcd(Abs(f.num), f.den)
    IN  Fraction(f.num \div g, f.den \div g)

FracAdd(a, b) == Normalize(Fraction(a.num * b.den + b.num * a.den, a.den * b.den))

FracSub(a, b) == Normalize(Fraction(a.num * b.den - b.num * a.den, a.den * b.den))

FracMul(a, b) == Normalize(Fraction(a.num * b.num, a.den * b.den))

\* a / n for an integer n > 0
FracDivInt(a, n) == Normalize(Fraction(a.num, a.den * n))

\* acc + xs[i] + ... + xs[Len(xs)]
RECURSIVE FracSumFrom(_, _, _)
FracSumFrom(xs, i, acc) ==
    IF i > Len(xs) THEN acc
    ELSE LET next == FracAdd(acc, xs[i])
         IN  IF next.num = 0 THEN FracSumFrom(xs, i + 1, Fraction(0, 1))
             ELSE FracSumFrom(xs, i + 1, next)

FracSum(xs) == FracSumFrom(xs, 1, Fraction(0, 1))

\* np.mean
Mean(xs) == FracDivInt(FracSum(xs), Len(xs))

\* np.std squared: the mean of the squared deviations from the mean
Variance(xs) ==
    LET \* computed once, before the deviations
        mean == Mean(xs)
        sq == [i \in 1..Len(xs) |-> FracMul(FracSub(xs[i], mean), FracSub(xs[i], mean))]
    IN  IF mean.den > 0 THEN Mean(sq) ELSE Fraction(0, 1)

\* hist[i][1] - hist[j][1] over max(minutes between them, 1); i, j are
\* 0-based list indices as in the code
VelocityBetween(hist, i, j) ==
    Fraction((hist[i + 1][2] - hist[j + 1][2]) * 60,
             Max(hist[i + 1][1] - hist[j + 1][1], 60))

\* _velocity_at_offset(offset_bars, window_bars)
_velocity_at_offset(h, offset_bars, window_bars) ==
    LET end_idx == Len(h) - offset_bars
        start_idx == Max(0, end_idx - window_bars)
        end_in_bounds == IF end_idx >= Len(h) THEN Len(h) - 1 ELSE end_idx
    IN  IF end_idx <= 0 \/ start_idx >= end_idx THEN Fraction(0, 1)
        ELSE VelocityBetween(h, end_in_bounds, start_idx)

\* acceleration()
acceleration(h) ==
    FracSub(velocity(h, 15), _velocity_at_offset(h, 10, 5))

\* _compute_rolling_velocities(window)
_compute_rolling_velocities(h, window) ==
    IF Len(h) <= window THEN <<>>
    ELSE [n \in 1..(Len(h) - window) |->
            VelocityBetween(h, window + n - 1, n - 1)]

ZScore(diff, variance) == [diff |-> diff, variance |-> variance]

\* the float 0.0 returned by velocity_zscore
ZeroZScore == ZScore(Fraction(0, 1), Fraction(1, 1))

\* the float delta_oi / max(delta_t, 1) of two history entries, delta_t
\* being the float (seconds between them) / 60
FloatVelocityBetween(hist, i, j) ==
    FDiv(FInt(hist[i + 1][2] - hist[j + 1][2]),
         FMax(FDiv(FInt(hist[i + 1][1] - hist[j + 1][1]), FInt(60)), FInt(1)))

\* velocity(window_minutes) as the float the code computes
FloatVelocity(h, window_minutes) ==
    IF Len(h) < 2 THEN FZero
    ELSE LET window_bars == Max(1, window_minutes \div 3)
             first == Len(h) - Min(window_bars + 1, Len(h)) + 1
         IN  IF Len(h) - first + 1 < 2 THEN FZero
             ELSE FloatVelocityBetween(h, Len(h) - 1, first - 1)

\* _compute_rolling_velocities(window) as the floats the code computes
FloatRollingVelocities(h, window) ==
    IF Len(h) <= window THEN <<>>
    ELSE [n \in 1..(Len(h) - window) |->
            FloatVelocityBetween(h, window + n - 1, n - 1)]

\* res + xs[i] + xs[i + step] + ... up to index last, added in that order
RECURSIVE SumEvery(_, _, _, _, _)
SumEvery(xs, i, last, step, res) ==
    IF i > last THEN res
    ELSE IF res.s = 0 THEN SumEvery(xs, i + step, last, step, xs[i])
    ELSE SumEvery(xs, i + step, last, step, FAdd(res, xs[i]))

\* ((r[1] + r[2]) + (r[3] + r[4])) + ((r[5] + r[6]) + (r[7] + r[8]))
SumOfEight(r) ==
    FAdd(FAdd(FAdd(r[1], r[2]), FAdd(r[3], r[4])),
         FAdd(FAdd(r[5], r[6]), FAdd(r[7], r[8])))

\* the sum numpy forms of up to 128 doubles: fewer than eight are added in
\* order; otherwise eight running sums take every eighth element, are
\* combined in pairs, and the elements left over are added in order
PairwiseSum(xs) ==
    LET n == Len(xs)
        full == n - (n % 8)
    IN  IF n < 8 THEN SumEvery(xs, 1, n, 1, FZero)
        ELSE SumEvery(xs, full + 1, n, 1,
                      SumOfEight([j \in 1..8 |-> SumEvery(xs, j + 8, full, 8, xs[j])]))

\* np.mean on floats
FloatMean(xs) == FDiv(PairwiseSum(xs), FInt(Len(xs)))

\* the number of zero bits below the lowest set bit of m # 0
RECURSIVE LowZeros(_)
LowZeros(m) ==
    IF m[1] = 0 THEN 14 + LowZeros(Tail(m))
    ELSE CHOOSE t \in 0..13 : m[1] % (2 ^ (t + 1)) = 2 ^ t

\* the exponent of the lowest set bit of a float other than 0
LowBit(a) == a.e + LowZeros(a.m)

\* the float a as a multiple of 2^unit, unit at most LowBit(a)
InUnits(a, unit) ==
    IF a.s = 0 THEN 0 ELSE a.s * BigToInt(BigShl(BigShr(a.m, LowZeros(a.m)), LowBit(a) - unit))

\* k[1]^2 + ... + k[n]^2
RECURSIVE SumOfSquares(_, _)
SumOfSquares(k, n) == IF n = 0 THEN 0 ELSE k[n] * k[n] + SumOfSquares(k, n - 1)

\* the z-score of the deviations dev of the series and diff of the current
\* velocity from the mean, in units of 2^unit
ZScoreInUnits(dev, diff, unit) ==
    ZScore(Fraction(InUnits(diff, unit), 1),
           Normalize(Fraction(
               SumOfSquares([i \in DOMAIN dev |-> InUnits(dev[i], unit)], Len(dev)),
               Len(dev))))

\* the lowest set bit of the deviations other than 0
LowestBit(dev, diff) ==
    LET lows == {LowBit(dev[i]) : i \in {j \in DOMAIN dev : dev[j].s # 0}}
                \cup (IF diff.s = 0 THEN {} ELSE {LowBit(diff)})
    IN  CHOOSE u \in lows : \A v \in lows : u <= v

ZScoreOfDeviations(dev, diff) ==
    IF \A i \in DOMAIN dev : dev[i].s = 0 THEN ZeroZScore
    ELSE ZScoreInUnits(dev, diff, LowestBit(dev, diff))

ZScoreAboutMean(xs, current, mean) ==
    ZScoreOfDeviations([i \in DOMAIN xs |-> FSub(xs[i], mean)], FSub(current, mean))

\* (current - np.mean(xs)) / np.std(xs), 0.0 for a std of 0
ZScoreOfFloats(xs, current) == ZScoreAboutMean(xs, current, FloatMean(xs))

\* velocity_zscore() on a history whose rolling velocities are all the same
\* number: np.std is 0 only if every float deviation from the float mean is
\* 0.  Otherwise the result is (velocity(15) - mean) / std on the floats,
\* given with diff and variance in units of a common power of two.
FloatZScore(h) == ZScoreOfFloats(FloatRollingVelocities(h, 5), FloatVelocity(h, 15))

\* velocity_zscore().  The series is judged in exact arithmetic when its
\* velocities differ, as they then differ by far more than float rounding;
\* a series of one repeated velocity is taken through the float arithmetic
\* of np.mean and np.std.
velocity_zscore(h) ==
    LET all_velocities == _compute_rolling_velocities(h, 5)
    IN  IF Len(all_velocities) < 10 THEN ZeroZScore
        ELSE LET mean == Mean(all_velocities)
                 variance == Variance(all_velocities)
             IN  IF variance.num = 0 THEN FloatZScore(h)
                 ELSE ZScore(FracSub(velocity(h, 15), mean), variance)

\* the band of the oldest snapshot of the history
DivergenceOfOldestSnapshot(h) ==
    IF h = <<>> THEN "UNKNOWN"
    ELSE LET d == Max(h[1][2], 1)
         IN  IF 10 * h[1][3] > 12 * d THEN "EXTREME_FRESH"
             ELSE IF 10 * h[1][3] > 6 * d THEN "MOSTLY_FRESH"
             ELSE IF 10 * h[1][3] > 3 * d THEN "MIXED"
             ELSE "MOSTLY_CLOSING"

\* volume_oi_divergence(): ratio = current_vol / max(current_oi, 1)
volume_oi_divergence(h) ==
    IF h = <<>> THEN "UNKNOWN"
    ELSE LET recent == h[Len(h)]
             current_oi == recent[2]
             current_vol == recent[3]
             d == Max(current_oi, 1)
         IN  IF 10 * current_vol > 12 * d THEN "EXTREME_FRESH"
             ELSE IF 10 * current_vol > 6 * d THEN "MOSTLY_FRESH"
             ELSE IF 10 * current_vol > 3 * d THEN "MIXED"
             ELSE "MOSTLY_CLOSING"

-----------------------------------------------------------------------------
(* DealerExposureEngine (gex.py)                                            *)
(*                                                                          *)
(* A chain row is a dict; a key the row lacks is absent from the record.    *)

(* The exposures are floats, accumulated term by term in the order of the   *)
(* code: they are computed bit for bit.                                     *)

\* the float 0.01
FloatHundredth == FHundredths(1)

\* one side of a row's gamma exposure as the float the code computes:
\* sign * gamma * oi * lot_size * (spot**2) * 0.01, multiplied left to right
FloatSideGex(sign, gamma, oi, lot_size, s) ==
    FMul(FMul(FMul(FMul(FDiv(FInt(sign * gamma), FInt(1000)), FInt(100 * oi)),
                   FInt(lot_size)),
              FInt((100 * s) * (100 * s))),
         FloatHundredth)

\* the call side of a row's gamma exposure, with the sign of the put side
CallGexWithPutSign(row, s) ==
    FloatSideGex(1, Get(row, "ce_gamma", 0), Get(row, "call_oi", 0), Get(row, "lot_size", 50), s)

\* -1 * call_gamma * call_oi * lot_size * (spot**2) * 0.01
CallGex(row, s) ==
    FloatSideGex(-1, Get(row, "ce_gamma", 0), Get(row, "call_oi", 0), Get(row, "lot_size", 50), s)

\* 1 * put_gamma * put_oi * lot_size * (spot**2) * 0.01
PutGex(row, s) ==
    FloatSideGex(1, Get(row, "pe_gamma", 0), Get(row, "put_oi", 0), Get(row, "lot_size", 50), s)

\* (-1 * delta) * oi * lot_size, and the same for charm
FloatSideDex(delta, oi, lot_size) == FMul(FMul(FNeg(delta), FInt(100 * oi)), FInt(lot_size))

\* (-1 * vanna) * oi * lot_size * spot * iv
FloatSideVex(vanna, oi, lot_size, s, iv) ==
    FMul(FMul(FloatSideDex(vanna, oi, lot_size), FInt(100 * s)), iv)

\* gex after the two += of a row
RowGex(gex, row, s) == FAdd(FAdd(gex, CallGex(row, s)), PutGex(row, s))

\* dex after the two += of a row
RowDex(dex, row) ==
    FAdd(FAdd(dex, FloatSideDex(FHundredths(Get(row, "ce_delta", 0)),
                                Get(row, "call_oi", 0), Get(row, "lot_size", 50))),
         FloatSideDex(FHundredths(Get(row, "pe_delta", 0)),
                      Get(row, "put_oi", 0), Get(row, "lot_size", 50)))

\* vex after the two += of a row
RowVex(vex, row, s) ==
    FAdd(FAdd(vex, FloatSideVex(FDiv(FInt(Get(row, "ce_vanna", 0)), FInt(1000)),
                                Get(row, "call_oi", 0), Get(row, "lot_size", 50), s,
                                FHundredths(Get(row, "ce_iv", 0)))),
         FloatSideVex(FDiv(FInt(Get(row, "pe_vanna", 0)), FInt(1000)),
                      Get(row, "put_oi", 0), Get(row, "lot_size", 50), s,
                      FHundredths(Get(row, "pe_iv", 0))))

\* cex after the two += of a row
RowCex(cex, row) ==
    FAdd(FAdd(cex, FloatSideDex(FDiv(FInt(Get(row, "ce_charm", 0)), FInt(1000)),
                                Get(row, "call_oi", 0), Get(row, "lot_size", 50))),
         FloatSideDex(FDiv(FInt(Get(row, "pe_charm", 0)), FInt(1000)),
                      Get(row, "put_oi", 0), Get(row, "lot_size", 50)))

Exposures(status, gex, dex, vex, cex) ==
    [status |-> status, gex |-> gex, dex |-> dex, vex |-> vex, cex |-> cex]

\* the loop of calculate_exposures over the rows, from the totals so far
RECURSIVE AccumulateExposures(_, _, _)
AccumulateExposures(chain, s, acc) ==
    IF chain = <<>> THEN acc
    ELSE AccumulateExposures(Tail(chain), s,
             Exposures("returned",
                       RowGex(acc.gex, Head(chain), s),
                       RowDex(acc.dex, Head(chain)),
                       RowVex(acc.vex, Head(chain), s),
                       RowCex(acc.cex, Head(chain))))

\* calculate_exposures(option_chain, spot): no key of a row is required
calculate_exposures(chain, s) ==
    AccumulateExposures(chain, s, Exposures("returned", FZero, FZero, FZero, FZero))

\* sorted(option_chain, key=lambda x: x['strike']): stable insertion
RECURSIVE InsertByStrike(_, _)
InsertByStrike(row, sorted) ==
    IF sorted = <<>> THEN <<row>>
    ELSE IF row["strike"] < Head(sorted)["strike"] THEN <<row>> \o sorted
    ELSE <<Head(sorted)>> \o InsertByStrike(row, Tail(sorted))

RECURSIVE SortedByStrike(_)
SortedByStrike(chain) ==
    IF chain = <<>> THEN <<>>
    ELSE InsertByStrike(chain[Len(chain)], SortedByStrike(SubSeq(chain, 1, Len(chain) - 1)))

\* net_gex = call_gex + put_gex as a float
FloatNetGex(row, s) == FAdd(CallGex(row, s), PutGex(row, s))

\* the float cumulative_gex after the first i rows: cumulative_gex += net_gex
\* from 0
RECURSIVE FloatCumulativeGex(_, _, _)
FloatCumulativeGex(sorted_chain, s, i) ==
    IF i = 0 THEN FZero
    ELSE FAdd(FloatCumulativeGex(sorted_chain, s, i - 1),
              FloatNetGex(sorted_chain[i], s))

\* cumulative_gex after the first i rows, in exact arithmetic
RECURSIVE CumulativeGex(_, _, _)
CumulativeGex(sorted_chain, s, i) ==
    IF i = 0 THEN 0
    ELSE CumulativeGex(sorted_chain, s, i - 1)
         + ( Get(sorted_chain[i], "pe_gamma", 0) * Get(sorted_chain[i], "put_oi", 0)
             - Get(sorted_chain[i], "ce_gamma", 0) * Get(sorted_chain[i], "call_oi", 0) )
           * Get(sorted_chain[i], "lot_size", 50) * (s * s)

\* gex_profile: (strike, cumulative_gex) per sorted row, with the sign of
\* cumulative_gex as a third component.  A sum other than 0 is far from 0 and
\* has the sign of the float; where the terms cancel exactly the float sum
\* may be a rounding residue of either sign, and its sign is computed
GexProfile(sorted_chain, s) ==
    [i \in 1..Len(sorted_chain) |->
        LET cumulative_gex == CumulativeGex(sorted_chain, s, i)
        IN  <<sorted_chain[i]["strike"], cumulative_gex,
              IF cumulative_gex > 0 THEN 1
              ELSE IF cumulative_gex < 0 THEN -1
              ELSE FloatCumulativeGex(sorted_chain, s, i).s>>]

\* the zero-crossing loop, from index i (1-based position of curr)
RECURSIVE FindCrossing(_, _)
FindCrossing(gex_profile, i) ==
    IF i > Len(gex_profile) THEN 0
    ELSE LET prev_strike == gex_profile[i - 1][1]
             prev_val == gex_profile[i - 1][3]
             curr_strike == gex_profile[i][1]
             curr_val == gex_profile[i][3]
         IN  IF prev_val > 0 /\ curr_val < 0 THEN prev_strike + curr_strike
             ELSE IF prev_val < 0 /\ curr_val > 0 THEN prev_strike + curr_strike
             ELSE FindCrossing(gex_profile, i + 1)

FlipLevel(status, level) == [status |-> status, level |-> level]

\* gex_flip_level(option_chain, spot); x['strike'] raises KeyError for a row
\* without the key
gex_flip_level(chain, s) ==
    IF \E i \in 1..Len(chain) : "strike" \notin DOMAIN chain[i]
    THEN FlipLevel("KeyError", 0)
    ELSE FlipLevel("returned", FindCrossing(GexProfile(SortedByStrike(chain), s), 2))

-----------------------------------------------------------------------------
(* Black76Engine (black76.py)                                               *)
(*                                                                          *)
(* Price and greeks are transcendental functions of the arguments (log,     *)
(* exp, normal cdf and pdf in floating point) and are not represented: of   *)
(* price_and_greeks the model keeps the clamped T and sigma it computes     *)
(* with and whether it returns or raises; of one pricing evaluation inside  *)
(* implied_volatility it keeps which of the loop's branches the evaluated   *)
(* price and vega select, and where sigma - diff / vega_adj falls with      *)
(* respect to the band [0.001, 5.0].  An estimate of implied_volatility is  *)
(* one of the floats the code names, "0.0", "0.001", "0.30", "5.0", or      *)
(* "inside": a float strictly between 0.001 and 5.0 that an update gave.    *)

\* range(100)
MaxIterations == 100

GreekResult(status, T, sigma) == [status |-> status, T |-> T, sigma |-> sigma]

\* price_and_greeks(F, K, T, sigma, option_type): T <= 0 becomes one hour,
\* sigma <= 0 becomes 0.001; F / K is a division of the two arguments and
\* raises ZeroDivisionError for K = 0 before np.log is applied; every later
\* division is a numpy float division, which does not raise
price_and_greeks(F, K, T, sigma, option_type) ==
    LET T_floored == IF T <= 0 THEN 1 ELSE T
        sigma_floored == IF sigma <= 0 THEN 1 ELSE sigma
    IN  IF K = 0 THEN GreekResult("ZeroDivisionError", T_floored, sigma_floored)
        ELSE GreekResult("returned", T_floored, sigma_floored)

\* a run of implied_volatility: where it stands, what it returned or raised,
\* the estimate, the pricing evaluations made, whether every Newton update
\* so far gave an estimate in [0.001, 5.0], and how the loop was left
IVRun(pc, status, sigma, evaluations, in_band, exit) ==
    [pc |-> pc, status |-> status, sigma |-> sigma, evaluations |-> evaluations,
     updates_in_band |-> in_band, exit |-> exit]

\* the guards of implied_volatility with the intrinsic-value test first
GuardsIntrinsicFirst(market_price, F, K, T, option_type) ==
    LET intrinsic == IF option_type = "CE" THEN Max(0, F - K) ELSE Max(0, K - F)
    IN  IF market_price <= intrinsic THEN IVRun("done", "returned", "0.001", 0, TRUE, "guard")
        ELSE IF T <= 0 \/ market_price <= 0 THEN IVRun("done", "returned", "0.0", 0, TRUE, "guard")
        ELSE IVRun("loop", "running", "0.30", 0, TRUE, "none")

\* implied_volatility up to the loop: the two guards and the initial guess
Guards(market_price, F, K, T, option_type) ==
    LET intrinsic == IF option_type = "CE" THEN Max(0, F - K) ELSE Max(0, K - F)
    IN  IF T <= 0 \/ market_price <= 0 THEN IVRun("done", "returned", "0.0", 0, TRUE, "guard")
        ELSE IF market_price <= intrinsic THEN IVRun("done", "returned", "0.001", 0, TRUE, "guard")
        ELSE IVRun("loop", "running", "0.30", 0, TRUE, "none")

\* the estimates within [0.001, 5.0]
BandEstimates == {"0.001", "0.30", "inside", "5.0"}

\* where sigma - diff / vega_adj can fall: under 0.001, on it, strictly
\* between 0.001 and 5.0, on 5.0 or over it
UpdateOutcomes == {"below", "0.001", "inside", "5.0", "above"}

\* sigma - diff / vega_adj without the band
UnclampedUpdate(update) == update

\* sigma = sigma - diff / vega_adj; sigma = max(0.001, min(sigma, 5.0))
NewtonUpdate(update) ==
    IF update = "below" THEN "0.001"
    ELSE IF update = "above" THEN "5.0"
    ELSE update

\* a volatility in thousandths that the estimate is not below
ThousandthsOf(estimate) ==
    IF estimate = "0.30" THEN 300 ELSE IF estimate = "5.0" THEN 5000 ELSE 1

\* one pass of the loop body for the evaluation outcome.  The estimate is
\* positive, so price_and_greeks computes with it unchanged.  A NaN price or
\* vega fails both break tests and max(0.001, min(nan, 5.0)) is 0.001.
Iteration(run, F, K, T, option_type, outcome) ==
    LET g == price_and_greeks(F, K, T, ThousandthsOf(run.sigma), option_type)
        evaluations == run.evaluations + 1
    IN  IF g.status # "returned"
        THEN IVRun("done", g.status, run.sigma, evaluations, run.updates_in_band, "raised")
        ELSE IF outcome.kind \in {"converged", "flat_vega"}
        THEN IVRun("done", "returned", run.sigma, evaluations, run.updates_in_band,
                   outcome.kind)
        ELSE LET sigma == IF outcome.kind = "nan" THEN "0.001"
                          ELSE NewtonUpdate(outcome.update)
                 in_band == run.updates_in_band /\ sigma \in BandEstimates
             IN  IF evaluations = MaxIterations
                 THEN IVRun("done", "returned", sigma, evaluations, in_band, "exhausted")
                 ELSE IVRun("loop", "running", sigma, evaluations, in_band, "none")

-----------------------------------------------------------------------------
(* Velocity engine: inputs and operations *)

\* add_snapshot calls made on one engine
MaxSnapshots == 62

\* the first snapshots vary freely, the feed is steady afterwards
MaxVaried == 3

\* seconds between two snapshots
IntervalInputs == {30, 180, 300}

\* <<OI change since the previous snapshot, volume>>
VariedInputs == { <<0, 500>>, <<100, 600>>, <<4900, 5000>> }

SteadyInput == <<100, 600>>

WindowInputs == {1, 15}

NotMeasured == [window |-> 0, value |-> Fraction(0, 1)]

\* the OISnapshot the feed delivers next
NextSnapshot(in) ==
    [timestamp |-> (Len(log) + 1) * interval,
     oi |-> (IF log = <<>> THEN 10000 ELSE log[Len(log)][2]) + in[1],
     volume |-> in[2]]

\* engine.add_snapshot(snapshot)
AddSnapshot ==
    /\ Len(log) < MaxSnapshots
    /\ \E in \in (IF Len(log) < MaxVaried THEN VariedInputs ELSE {SteadyInput}) :
         LET snapshot == NextSnapshot(in)
         IN  /\ history' = add_snapshot(history, snapshot)
             /\ log' = Append(log, <<snapshot.timestamp, snapshot.oi, snapshot.volume>>)
    /\ measured' = NotMeasured
    /\ UNCHANGED interval

\* engine.velocity(window_minutes)
Velocity ==
    /\ measured = NotMeasured
    /\ \E w \in WindowInputs :
         measured' = [window |-> w, value |-> velocity(history, w)]
    /\ UNCHANGED <<history, interval, log>>

-----------------------------------------------------------------------------
(* Several engines, one per (symbol, strike, option_type) key *)

\* add_snapshot calls made on one tracker
MaxTrackerSnapshots == 16

TrackerKeys == { <<"NIFTY", 19500, "CE">>, <<"NIFTY", 19500, "PE">> }

\* <<OI change since the previous snapshot, volume>>
TrackerVariedInputs == { <<5, 600>>, <<10, 13000>> }

TrackerSteadyInput == <<5, 600>>

\* seconds between two snapshots of one tracker
TrackerInterval == 180

\* what a method returned: a float, a z-score or a band
Reading(value, zscore, band) == [value |-> value, zscore |-> zscore, band |-> band]

NoReading == Reading(Fraction(0, 1), ZeroZScore, "NONE")

Call(op, key, window, result) ==
    [op |-> op, key |-> key, window |-> window, result |-> result]

NoCall == Call("none", <<"NONE", 0, "NONE">>, 0, NoReading)

\* OIVelocityEngine(symbol, strike, option_type) for every key: __init__
\* gives each instance a deque of its own
NewTrackers == [k \in TrackerKeys |-> <<>>]

\* the OISnapshot the feed delivers next for the tracker with history h
NextTrackerSnapshot(h, in) ==
    [timestamp |-> (Len(h) + 1) * TrackerInterval,
     oi |-> (IF h = <<>> THEN 10000 ELSE h[Len(h)][2]) + in[1],
     volume |-> in[2]]

\* the histories after one add_snapshot on a class-level deque shared by all
\* instances
SharedHistoryAfterAdd(t, k, snapshot) ==
    [j \in DOMAIN t |-> add_snapshot(t[j], snapshot)]

\* the histories after trackers[k].add_snapshot(snapshot): self.history is an
\* instance attribute
TrackersAfterAdd(t, k, snapshot) ==
    [t EXCEPT ![k] = add_snapshot(t[k], snapshot)]

\* trackers[k].add_snapshot(snapshot)
TrackerAddSnapshot ==
    \E k \in TrackerKeys :
        /\ Len(trackers[k]) < MaxTrackerSnapshots
        /\ \E in \in (IF Len(trackers[k]) < MaxVaried
                      THEN TrackerVariedInputs ELSE {TrackerSteadyInput}) :
             trackers' = TrackersAfterAdd(trackers, k, NextTrackerSnapshot(trackers[k], in))
        /\ last_call' = Call("add_snapshot", k, 0, NoReading)

\* trackers[k].velocity(window_minutes)
TrackerVelocity ==
    /\ \E k \in TrackerKeys, w \in WindowInputs :
         last_call' = Call("velocity", k, w,
                           Reading(velocity(trackers[k], w), ZeroZScore, "NONE"))
    /\ UNCHANGED trackers

\* trackers[k].acceleration()
TrackerAcceleration ==
    /\ \E k \in TrackerKeys :
         last_call' = Call("acceleration", k, 0,
                           Reading(acceleration(trackers[k]), ZeroZScore, "NONE"))
    /\ UNCHANGED trackers

\* trackers[k].velocity_zscore()
TrackerVelocityZScore ==
    /\ \E k \in TrackerKeys :
         last_call' = Call("velocity_zscore", k, 0,
                           Reading(Fraction(0, 1), velocity_zscore(trackers[k]), "NONE"))
    /\ UNCHANGED trackers

\* trackers[k].volume_oi_divergence()
TrackerVolumeOIDivergence ==
    /\ \E k \in TrackerKeys :
         last_call' = Call("volume_oi_divergence", k, 0,
                           Reading(Fraction(0, 1), ZeroZScore,
                                   volume_oi_divergence(trackers[k])))
    /\ UNCHANGED trackers

-----------------------------------------------------------------------------
(* Trackers fed with snapshots around the band thresholds *)

MaxDivergenceSnapshots == 2

\* <<oi, volume>> of a snapshot: ratios 0.3, 0.3001, 0.6001, 1.2, 1.2001 of
\* an OI of 10000, and volumes 0 and 1 on an OI of 0 or less
DivergenceInputs ==
    { <<10000, 3000>>, <<10000, 3001>>, <<10000, 6001>>, <<10000, 12000>>,
      <<10000, 12001>>, <<0, 0>>, <<-5, 1>> }

\* trackers[k].add_snapshot(OISnapshot(timestamp, oi, volume, ...))
DivergenceAddSnapshot ==
    \E k \in TrackerKeys :
        /\ Len(trackers[k]) < MaxDivergenceSnapshots
        /\ \E in \in DivergenceInputs :
             trackers' = TrackersAfterAdd(trackers, k,
                            [timestamp |-> (Len(trackers[k]) + 1) * TrackerInterval,
                             oi |-> in[1], volume |-> in[2]])
        /\ last_call' = Call("add_snapshot", k, 0, NoReading)

-----------------------------------------------------------------------------
(* Exposure engine: inputs and operations *)

MaxRows == 3

ChainStrikeInputs == {19000, 19100, 19200}

\* the greeks and open interest of a row
RowGreekInputs ==
    { [ce_gamma |-> 2, call_oi |-> 10, pe_gamma |-> 2, put_oi |-> 5,
       ce_delta |-> 50, pe_delta |-> -50, lot_size |-> 50],
      [pe_gamma |-> 2, put_oi |-> 5, pe_vanna |-> 3, pe_iv |-> 20, pe_charm |-> 1],
      [ce_gamma |-> 2, call_oi |-> 5, lot_size |-> 50, ce_vanna |-> 3, ce_iv |-> 20],
      [ce_gamma |-> 1, call_oi |-> 10, pe_gamma |-> 1, put_oi |-> 10, lot_size |-> 25,
       ce_delta |-> 50, pe_delta |-> -50, ce_charm |-> 1],
      [ce_gamma |-> 3, call_oi |-> 31, pe_gamma |-> 5, put_oi |-> 24, lot_size |-> 50],
      [ce_gamma |-> 3, call_oi |-> 9] }

\* rows with a strike, and the row of the example without one
RowInputs ==
    { [strike |-> k] @@ g : k \in ChainStrikeInputs, g \in RowGreekInputs }
    \cup { g \in RowGreekInputs : "ce_delta" \in DOMAIN g /\ g["lot_size"] = 50 }

SpotInputs == {190, 195}

NotCalculated == Exposures("not called", FZero, FZero, FZero, FZero)

NoFlipLevel == FlipLevel("not called", 0)

\* option_chain.append(row); a chain holds one row per strike
AddRow ==
    /\ exposures = NotCalculated
    /\ flip_level = NoFlipLevel
    /\ Len(option_chain) < MaxRows
    /\ \E row \in RowInputs :
         /\ \A i \in 1..Len(option_chain) :
              ("strike" \in DOMAIN row /\ "strike" \in DOMAIN option_chain[i])
                  => option_chain[i]["strike"] # row["strike"]
         /\ option_chain' = Append(option_chain, row)
    /\ UNCHANGED <<gex_spot, exposures, flip_level>>

\* engine.calculate_exposures(option_chain, spot)
CalculateExposures ==
    /\ exposures = NotCalculated
    /\ exposures' = calculate_exposures(option_chain, gex_spot)
    /\ UNCHANGED <<option_chain, gex_spot, flip_level>>

\* engine.gex_flip_level(option_chain, spot)
GexFlipLevel ==
    /\ flip_level = NoFlipLevel
    /\ flip_level' = gex_flip_level(option_chain, gex_spot)
    /\ UNCHANGED <<option_chain, gex_spot, exposures>>

-----------------------------------------------------------------------------
(* Black-76: inputs and operations *)

Black76Inputs ==
    [market_price : {-5, 0, 100, 150}, F : {0, 23500}, K : {0, 23400, 23600},
     T : {-24, 0, 168}, sigma : {-100, 0, 150}, option_type : {"CE", "PE"}]

\* what one pricing evaluation makes of the loop body: |diff| < EPSILON,
\* |vega_adj| < 1e-10, a NaN, or a Newton step diff / vega_adj that takes
\* sigma to one of the update outcomes
EvaluationOutcomes ==
    { [kind |-> "converged", update |-> "none"], [kind |-> "flat_vega", update |-> "none"],
      [kind |-> "nan", update |-> "none"] }
    \cup { [kind |-> "step", update |-> u] : u \in UpdateOutcomes }

GreeksNotCalled == GreekResult("not called", 0, 0)

IVNotCalled == IVRun("not called", "not called", "none", 0, TRUE, "none")

\* engine.price_and_greeks(F, K, T, sigma, option_type)
PriceAndGreeks ==
    /\ greeks = GreeksNotCalled
    /\ greeks' = price_and_greeks(b76_args.F, b76_args.K, b76_args.T,
                                   b76_args.sigma, b76_args.option_type)
    /\ UNCHANGED <<b76_args, iv_run>>

\* engine.implied_volatility(market_price, F, K, T, option_type), up to the loop
ImpliedVolatility ==
    /\ iv_run = IVNotCalled
    /\ iv_run' = Guards(b76_args.market_price, b76_args.F, b76_args.K, b76_args.T,
                     b76_args.option_type)
    /\ UNCHANGED <<b76_args, greeks>>

\* one iteration of the loop of implied_volatility
NewtonIteration ==
    /\ iv_run.pc = "loop"
    /\ iv_run.evaluations < MaxIterations
    /\ \E outcome \in EvaluationOutcomes :
         iv_run' = Iteration(iv_run, b76_args.F, b76_args.K, b76_args.T,
                         b76_args.option_type, outcome)
    /\ UNCHANGED <<b76_args, greeks>>

-----------------------------------------------------------------------------
(* Black-76 round trip: implied_volatility(price_and_greeks(...).price, ...) *)

\* F, K > 0, T > 0, a volatility strictly inside (0.001, 5.0) and the side;
\* market_price is 0 until the price is computed
RoundTripInputs ==
    [market_price : {0}, F : {23500}, K : {22000, 25000}, T : {168},
     sigma : {2, 150, 300, 2000}, option_type : {"CE", "PE"}]

\* g.price = exp_rT * (F * Nd1 - K * Nd2) for CE, exp_rT * (K * Nm_d2 -
\* F * Nm_d1) for PE, with exp_rT < 1.  The price is not computed: it is
\* one of the prices the formula gives over the band of volatilities, held
\* as the lowest whole price that compares the same way with 0 and with
\* max(0, F - K) / max(0, K - F): in the money a price in
\* [exp_rT * intrinsic, intrinsic] or a price above the intrinsic value;
\* out of the money 0.0 (both terms underflow) or a price above 0
PriceOutcomes(F, K, option_type) ==
    LET intrinsic == IF option_type = "CE" THEN Max(0, F - K) ELSE Max(0, K - F)
    IN  IF intrinsic > 0 THEN {intrinsic, intrinsic + 1} ELSE {0, 1}

\* g = engine.price_and_greeks(F, K, T, sigma, option_type); g.price is the
\* market price of the call of implied_volatility that follows
RoundTripPrice ==
    /\ greeks = GreeksNotCalled
    /\ greeks' = price_and_greeks(b76_args.F, b76_args.K, b76_args.T,
                                   b76_args.sigma, b76_args.option_type)
    /\ IF greeks'.status = "returned"
       THEN \E price \in PriceOutcomes(b76_args.F, b76_args.K, b76_args.option_type) :
                b76_args' = [b76_args EXCEPT !.market_price = price]
       ELSE UNCHANGED b76_args
    /\ UNCHANGED iv_run

\* engine.implied_volatility(g.price, F, K, T, option_type), up to the loop
RoundTripImpliedVolatility ==
    /\ greeks.status = "returned"
    /\ iv_run = IVNotCalled
    /\ iv_run' = Guards(b76_args.market_price, b76_args.F, b76_args.K, b76_args.T,
                     b76_args.option_type)
    /\ UNCHANGED <<b76_args, greeks>>

\* the evaluation outcomes for a market price that is the model price at
\* volatility s (thousandths): the first evaluation, at 0.30, gives
\* diff = 0.0 when s is 0.30, since it repeats the computation of the price
RoundTripOutcomes(sigma, s) ==
    IF sigma = "0.30" /\ s = 300
    THEN {[kind |-> "converged", update |-> "none"]}
    ELSE EvaluationOutcomes

\* one iteration of the loop of implied_volatility on that market price
RoundTripIteration ==
    /\ iv_run.pc = "loop"
    /\ iv_run.evaluations < MaxIterations
    /\ \E outcome \in RoundTripOutcomes(iv_run.sigma, greeks.sigma) :
         iv_run' = Iteration(iv_run, b76_args.F, b76_args.K, b76_args.T,
                         b76_args.option_type, outcome)
    /\ UNCHANGED <<b76_args, greeks>>

-----------------------------------------------------------------------------
(* AngelOneSmartFetcher.get_option_chain.  The invocations are coroutines   *)
(* on one event loop: an invocation runs from one await to the next as one  *)
(* step, and at every await other invocations may run.  A redis command is  *)
(* two awaits' worth of steps: the server carries it out, and later the     *)
(* coroutine takes up the reply.                                            *)

\* invocations of get_option_chain
MaxInvocations == 2

\* the symbols asked for, one expiry each
FetchSymbols == {"NIFTY", "BANKNIFTY"}

EmptyCache == [k \in FetchSymbols |-> "absent"]

\* what an invocation of get_option_chain did so far: the symbol, where it
\* stands, the attempt of the retry loop, the wait_and_acquire and
\* optionChain calls made, whether a wait_and_acquire was made since the
\* last optionChain call, the optionChain calls made without one, and how
\* it ended.  It stands at
\*   "get"      await self.redis.get(cache_key), the server yet to read
\*   "hit"      the same await, the reply holding the cached value
\*   "miss"     the same await, the reply holding None
\*   "acquire"  await self.rl.wait_and_acquire('option_chain')
\*   "upstream" await self._fetch_with_timeout(self.client.optionChain, ...)
\*   "setex"    await self.redis.setex(...), the server yet to store
\*   "stored"   the same await, the entry stored and the reply under way
\*   "sleep"    await asyncio.sleep(...) of an exception handler
\*   "done"     returned or raised
Fetch(invocation, symbol, pc, attempt, acquisitions, upstream_calls, acquired, unacquired_calls, result) ==
    [invocation |-> invocation, symbol |-> symbol, pc |-> pc, attempt |-> attempt,
     acquisitions |-> acquisitions, upstream_calls |-> upstream_calls,
     acquired |-> acquired, unacquired_calls |-> unacquired_calls, result |-> result]

\* what await self._fetch_with_timeout(self.client.optionChain, ...) gives:
\* data, one of the three exception classes told apart by the handlers, or
\* an exception saying Invalid Session
UpstreamOutcomes ==
    {"data", "RateLimitError", "TimeoutError", "Invalid Session", "Exception"}

\* get_option_chain is called: it runs up to await self.redis.get(cache_key)
GetOptionChain ==
    /\ Len(fetch) < MaxInvocations
    /\ \E symbol \in FetchSymbols :
         fetch' = Append(fetch, Fetch(Len(fetch) + 1, symbol, "get", 0, 0, 0, FALSE, 0, "none"))
    /\ UNCHANGED cache

\* the redis server carries out the GET of an invocation
CacheGet ==
    /\ \E i \in 1..Len(fetch) :
         /\ fetch[i].pc = "get"
         /\ fetch' = [fetch EXCEPT ![i].pc =
                         IF cache[fetch[i].symbol] = "present" THEN "hit" ELSE "miss"]
    /\ UNCHANGED cache

\* the reply of redis.get is taken up: a cached value is returned, None
\* leads to await self.rl.wait_and_acquire('option_chain')
CacheReply ==
    /\ \E i \in 1..Len(fetch) :
         /\ fetch[i].pc \in {"hit", "miss"}
         /\ fetch' = [fetch EXCEPT ![i] =
                         IF fetch[i].pc = "hit"
                         THEN [fetch[i] EXCEPT !.pc = "done", !.result = "cached"]
                         ELSE [fetch[i] EXCEPT !.pc = "acquire"]]
    /\ UNCHANGED cache

\* the start of a pass of the retry loop: self.client.optionChain is handed
\* to the executor and the invocation awaits it
StartAttempt(f) ==
    [f EXCEPT !.pc = "upstream", !.upstream_calls = @ + 1, !.acquired = FALSE,
              !.unacquired_calls = IF f.acquired THEN @ ELSE @ + 1]

\* 'except Exception' without Invalid Session: raise e on the last attempt,
\* otherwise the next pass of the loop starts at once
AfterException(f) ==
    IF f.attempt = 2 THEN [f EXCEPT !.pc = "done", !.result = "raised"]
    ELSE StartAttempt([f EXCEPT !.attempt = @ + 1])

\* wait_and_acquire returns: the retry loop is entered and its first pass
\* runs up to await self._fetch_with_timeout(...)
FetcherWaitAndAcquire ==
    /\ \E i \in 1..Len(fetch) :
         /\ fetch[i].pc = "acquire"
         /\ fetch' = [fetch EXCEPT ![i] =
                         StartAttempt([fetch[i] EXCEPT !.attempt = 0,
                                                       !.acquisitions = @ + 1,
                                                       !.acquired = TRUE])]
    /\ UNCHANGED cache

\* the invocation after await self._fetch_with_timeout(...) gave outcome:
\* data is handed to redis.setex, RateLimitError and TimeoutError lead to
\* the asyncio.sleep of their handlers, the other exceptions are raised or
\* followed by the next pass
AfterAttempt(f, outcome) ==
    CASE outcome = "data" -> [f EXCEPT !.pc = "setex"]
      [] outcome \in {"RateLimitError", "TimeoutError"} -> [f EXCEPT !.pc = "sleep"]
      [] outcome = "Invalid Session" -> [f EXCEPT !.pc = "done", !.result = "FatalAPIError"]
      [] OTHER -> AfterException(f)

\* await self._fetch_with_timeout(...) is over
UpstreamCall ==
    /\ \E i \in 1..Len(fetch), outcome \in UpstreamOutcomes :
         /\ fetch[i].pc = "upstream"
         /\ fetch' = [fetch EXCEPT ![i] = AfterAttempt(fetch[i], outcome)]
    /\ UNCHANGED cache

\* the redis server carries out the SETEX of an invocation
CacheSetex ==
    \E i \in 1..Len(fetch) :
        /\ fetch[i].pc = "setex"
        /\ fetch' = [fetch EXCEPT ![i].pc = "stored"]
        /\ cache' = [cache EXCEPT ![fetch[i].symbol] = "present"]

\* the reply of redis.setex is taken up: return data
SetexReply ==
    /\ \E i \in 1..Len(fetch) :
         /\ fetch[i].pc = "stored"
         /\ fetch' = [fetch EXCEPT ![i] = [fetch[i] EXCEPT !.pc = "done", !.result = "data"]]
    /\ UNCHANGED cache

\* await self.redis.setex(...) raises, the entry stored or not: an exception
\* of the last class
SetexFails ==
    /\ \E i \in 1..Len(fetch) :
         /\ fetch[i].pc \in {"setex", "stored"}
         /\ fetch' = [fetch EXCEPT ![i] = AfterException(fetch[i])]
    /\ UNCHANGED cache

\* the asyncio.sleep of a handler is over: the next pass starts, or the
\* loop is over and the exception of line 96 is raised
SleepOver ==
    /\ \E i \in 1..Len(fetch) :
         /\ fetch[i].pc = "sleep"
         /\ fetch' = [fetch EXCEPT ![i] =
                         IF fetch[i].attempt < 2
                         THEN StartAttempt([fetch[i] EXCEPT !.attempt = @ + 1])
                         ELSE [fetch[i] EXCEPT !.pc = "done",
                                               !.result = "failed after 3 attempts"]]
    /\ UNCHANGED cache

\* the cache entry reaches its TTL
CacheExpires ==
    /\ \E symbol \in FetchSymbols :
         /\ cache[symbol] = "present"
         /\ cache' = [cache EXCEPT ![symbol] = "absent"]
    /\ UNCHANGED fetch

-----------------------------------------------------------------------------
(* TokenBucketRateLimiter for endpoint type 'historical'.  The callers are  *)
(* coroutines on one event loop: a caller runs from one await to the next   *)
(* as one step.  A redis command is carried out by the server at one        *)
(* moment and its reply is taken up by the caller at a later one; time      *)
(* passes and other callers run in between.                                 *)

\* LIMITS['historical']['burst']
Burst == 5

\* LIMITS['historical']['window'], seconds
WindowSeconds == 60

\* the safety buffer of wait_and_acquire is 0.05 s, one tick
TicksPerSecond == 20

Window == WindowSeconds * TicksPerSecond

\* callers of wait_and_acquire
MaxCallers == 7

\* the clock stops at Window + MaxLate ticks
MaxLate == 2

\* the redis commands of a caller are answered within MaxDelay ticks of its
\* clock read
MaxDelay == 1

\* callers that read one clock value
MaxSameClock == 2

\* a caller: where it stands, its clock read in acquire, the reply of the
\* redis command it awaits, when its sleep ends, when wait_and_acquire
\* returned.  It stands at
\*   "pipeline" await pipe.execute(), the server yet to run the pipeline
\*   "counted"  the same await, the reply holding the count of zcard
\*   "zrange"   await self.redis.zrange(key, 0, 0), the server yet to read
\*   "oldest"   the same await, the reply holding the oldest score
\*   "sleeping" await asyncio.sleep(wait + 0.05)
\*   "returned" wait_and_acquire returned
Caller(pc, read, reply, wake, returned_at) ==
    [pc |-> pc, now |-> read, reply |-> reply, wake |-> wake, returned_at |-> returned_at]

\* the reply a caller holds when it awaits none
NoReply == -1

SetMin(S) == CHOOSE x \in S : \A y \in S : x <= y

\* the sorted set after the pipeline of a caller that read the clock at t:
\* zremrangebyscore(key, 0, t - window), then zadd(key, {str(t): t})
AfterPipeline(z, t) == {x \in z : x > t - Window} \cup {t}

InFlight == {i \in 1..Len(callers) : callers[i].pc \in {"pipeline", "counted", "zrange", "oldest"}}

\* wait_and_acquire is called: acquire reads the clock, queues the pipeline
\* and awaits pipe.execute().  Callers that read the same clock value add
\* the same member str(now): the set holds one entry for them all
Acquire ==
    /\ Len(callers) < MaxCallers
    /\ Cardinality({i \in 1..Len(callers) : callers[i].now = clock}) < MaxSameClock
    /\ callers' = Append(callers, Caller("pipeline", clock, NoReply, 0, -1))
    /\ UNCHANGED <<clock, zset>>

\* the redis server runs the pipeline of a caller as one transaction, with
\* the clock value the caller read: the reply holds the count
Pipeline ==
    \E i \in 1..Len(callers) :
        /\ callers[i].pc = "pipeline"
        /\ zset' = AfterPipeline(zset, callers[i].now)
        /\ callers' = [callers EXCEPT ![i] =
                          Caller("counted", callers[i].now, Cardinality(zset'), 0, -1)]
        /\ UNCHANGED clock

\* the reply of pipe.execute() is taken up: a count within the burst makes
\* acquire return 0.0 and wait_and_acquire return, a count above it leads
\* to await self.redis.zrange(key, 0, 0, withscores=True)
Counted ==
    \E i \in 1..Len(callers) :
        /\ callers[i].pc = "counted"
        /\ callers' = [callers EXCEPT ![i] =
                          IF callers[i].reply > Burst
                          THEN Caller("zrange", callers[i].now, NoReply, 0, -1)
                          ELSE Caller("returned", callers[i].now, NoReply, 0, clock)]
        /\ UNCHANGED <<clock, zset>>

\* the redis server reads the oldest entry for a caller; an empty set gives
\* an empty reply
Zrange ==
    \E i \in 1..Len(callers) :
        /\ callers[i].pc = "zrange"
        /\ callers' = [callers EXCEPT ![i] =
                          Caller("oldest", callers[i].now,
                                 IF zset = {} THEN NoReply ELSE SetMin(zset), 0, -1)]
        /\ UNCHANGED <<clock, zset>>

\* the reply of zrange is taken up, the rest of acquire and wait_and_acquire:
\* wait = window - (now - oldest) and the sleep of wait + 0.05 s when
\* wait > 0; an empty reply or no wait make wait_and_acquire return
Oldest ==
    \E i \in 1..Len(callers) :
        /\ callers[i].pc = "oldest"
        /\ LET wait == IF callers[i].reply = NoReply THEN 0
                       ELSE Window - (callers[i].now - callers[i].reply)
           IN  callers' = [callers EXCEPT ![i] =
                             IF wait > 0
                             THEN Caller("sleeping", callers[i].now, NoReply,
                                         clock + wait + 1, -1)
                             ELSE Caller("returned", callers[i].now, NoReply, 0, clock)]
        /\ UNCHANGED <<clock, zset>>

\* asyncio.sleep is over, at its end or later: wait_and_acquire returns
Wake ==
    \E i \in 1..Len(callers) :
        /\ callers[i].pc = "sleeping"
        /\ callers[i].wake <= clock
        /\ callers' = [callers EXCEPT ![i] =
                         Caller("returned", callers[i].now, NoReply, callers[i].wake, clock)]
        /\ UNCHANGED <<clock, zset>>

WakeTimes == {callers[i].wake : i \in {j \in 1..Len(callers) : callers[j].pc = "sleeping"}}

\* the moments time passes to: the next tick while a caller has just read
\* the clock, awaits redis or has slept long enough; half a window and
\* a window less a tick after the start; the end of a sleep
AdvanceTimes ==
    {clock + 1 : c \in {i \in 1..Len(callers) :
                          \/ callers[i].now = clock
                          \/ i \in InFlight
                          \/ callers[i].pc = "sleeping" /\ callers[i].wake <= clock}}
    \cup {Window \div 2, Window - 1} \cup WakeTimes

\* time passes, whatever the callers await
Advance ==
    /\ \E t \in AdvanceTimes :
         /\ t > clock
         /\ t <= Window + MaxLate
         /\ \A i \in InFlight : t <= callers[i].now + MaxDelay
         /\ clock' = t
    /\ UNCHANGED <<zset, callers>>

-----------------------------------------------------------------------------
(* Identifier: inputs and operations *)

MaxKeys == 2

StrikeInputs == {940, 950, 1000, 1010}

KeyInputs ==
    (StrikeInputs \X {"CE", "PE"}) \cup {<<1030, "CE">>, <<1050, "CE">>}

ChangeInputs == {-1000, 500, 501, 602, 1000, 1504}

PriceChangeInputs == {-4, 0, 3, 4, 10, 11}

AtmInputs == {0, 1000}

\* oi_changes[(strike, type)] = change, for a key not yet in the dict
SetOIChange ==
    /\ identified = NotCalled
    /\ Len(oi_changes) < MaxKeys
    /\ \E k \in KeyInputs, c \in ChangeInputs :
         /\ \A i \in 1..Len(oi_changes) : KeyOf(oi_changes[i]) # k
         /\ oi_changes' = Append(oi_changes, [strike |-> k[1], type |-> k[2], change |-> c])
    /\ UNCHANGED <<price_change, atm_strike, identified>>

\* identifier.identify(symbol, oi_changes, price_change, atm_strike, lot_size)
Identify ==
    /\ identified = NotCalled
    /\ identified' = identify(oi_changes, price_change, atm_strike)
    /\ UNCHANGED <<oi_changes, price_change, atm_strike>>

-----------------------------------------------------------------------------
(* Verdict engine: inputs and operations *)

MaxStructures == 3

\* what generate_verdict has returned: nothing yet
NoVerdict ==
    SmartMoneyVerdict("NONE", 0, "NONE", 0, "NONE", "NONE", NoStrike, 0, <<>>, <<>>)

\* the detections a caller may put in ctx['structure_detections']
StructureInputs ==
    { Detection("PROTECTIVE_PUT_HEDGE", 65, Leg(940, "PE"), NoLeg, "DEBIT", "NEUTRAL", "LOW"),
      Detection("STRADDLE", 75, Leg(1000, "BOTH"), NoLeg, "DEBIT", "NEUTRAL", "HIGH"),
      Detection("BULLISH_PUT_WRITE", 78, NoLeg, Leg(1000, "PE"), "CREDIT", "BULLISH", "HIGH"),
      Detection("NAKED_PUT_BUY", 85, Leg(1000, "PE"), NoLeg, "DEBIT", "BEARISH", "HIGH"),
      Detection("NAKED_CALL_BUY", 85, Leg(1040, "CE"), NoLeg, "DEBIT", "BULLISH", "MEDIUM"),
      Detection("NAKED_CALL_BUY", 70, Leg(1060, "CE"), NoLeg, "DEBIT", "BULLISH", "MEDIUM") }

\* the keys of ctx only the trap filter, the entry selection and the risk
\* level read
TrapInputs ==
    { dte @@ dist @@ iv :
        dte  \in { <<>>, [days_to_expiry |-> 1], [days_to_expiry |-> 2] },
        dist \in { [atm_distance_pct |-> 8], [atm_distance_pct |-> 9] },
        iv   \in { [iv_rank |-> 34], [iv_rank |-> 80], [iv_rank |-> 81] } }

\* the keys of ctx the directional scores read; price_change_today matters
\* to the trap filter only next to oi_signal = LONG_UNWINDING
DirectionInputs ==
    { oi @@ vw :
        oi \in { <<>>, [oi_signal |-> "LONG_BUILDUP"], [oi_signal |-> "SHORT_COVERING"],
                 [oi_signal |-> "SHORT_BUILDUP"],
                 [oi_signal |-> "LONG_UNWINDING", price_change_today |-> 3],
                 [oi_signal |-> "LONG_UNWINDING", price_change_today |-> 4] },
        vw \in { <<>>, [vwap_position |-> "ABOVE"], [vwap_position |-> "BELOW"] } }
    \cup
    { [oi_signal |-> "LONG_BUILDUP", vwap_position |-> "ABOVE", vex |-> -1],
      [oi_signal |-> "LONG_BUILDUP", vwap_position |-> "ABOVE", fii_net_change |-> -5001],
      [oi_signal |-> "LONG_BUILDUP", fii_net_change |-> 5001, atm_strike |-> 1000],
      [oi_signal |-> "SHORT_COVERING", gex |-> -20000001, rsi_14 |-> 39],
      [gex |-> -20000000, vex |-> 0, rsi_14 |-> 40, price_change_today |-> 4],
      [oi_signal |-> "SHORT_BUILDUP", vwap_position |-> "BELOW", rsi_14 |-> 71],
      [oi_signal |-> "SHORT_BUILDUP", vwap_position |-> "BELOW", gex |-> -20000001],
      [oi_signal |-> "SHORT_BUILDUP", rsi_14 |-> 70, fii_net_change |-> 5000],
      [oi_signal |-> "SHORT_BUILDUP", fii_net_change |-> -5001, atm_strike |-> 1000],
      [oi_signal |-> "LONG_UNWINDING", price_change_today |-> 4,
       vwap_position |-> "BELOW", fii_net_change |-> -5001],
      [oi_signal |-> "LONG_BUILDUP", vwap_position |-> "ABOVE", fii_net_change |-> 5001,
       atr_14_pct |-> 201, spot_price |-> 1950000],
      [oi_signal |-> "LONG_BUILDUP", vwap_position |-> "ABOVE", fii_net_change |-> 5001,
       atr_14_pct |-> 250, spot_price |-> 25],
      [oi_signal |-> "SHORT_BUILDUP", vwap_position |-> "BELOW", fii_net_change |-> -5001,
       atr_14_pct |-> 250, spot_price |-> 2525] }

\* momentum_score and velocity_zscore (tenths)
MomentumInputs ==
    { [momentum_score |-> 60, velocity_zscore |-> 25],
      [momentum_score |-> 61, velocity_zscore |-> 26],
      [momentum_score |-> 75, velocity_zscore |-> 26],
      [momentum_score |-> 76, velocity_zscore |-> 25],
      [momentum_score |-> 76, velocity_zscore |-> 26] }

CtxInputs ==
    { t @@ d @@ m : t \in TrapInputs, d \in DirectionInputs, m \in MomentumInputs }

\* a freshly constructed identifier input / velocity engine, never used
IdleIdentify ==
    /\ oi_changes = <<>>
    /\ price_change = 0
    /\ atm_strike = 1000
    /\ identified = NotCalled

IdleVelocity ==
    /\ history = <<>>
    /\ interval = 180
    /\ log = <<>>
    /\ measured = NotMeasured

IdleTrackers ==
    /\ trackers = NewTrackers
    /\ last_call = NoCall

IdleGex ==
    /\ option_chain = <<>>
    /\ gex_spot = 190
    /\ exposures = NotCalculated
    /\ flip_level = NoFlipLevel

IdleBlack76 ==
    /\ b76_args = [market_price |-> 150, F |-> 23500, K |-> 23400, T |-> 168,
                    sigma |-> 150, option_type |-> "CE"]
    /\ greeks = GreeksNotCalled
    /\ iv_run = IVNotCalled

IdleFetcher ==
    /\ cache = EmptyCache
    /\ fetch = <<>>

IdleLimiter ==
    /\ clock = 0
    /\ zset = {}
    /\ callers = <<>>

IdleVerdict ==
    /\ ctx = <<>>
    /\ structures = <<>>
    /\ verdict = NoVerdict

InitVerdict ==
    /\ ctx \in CtxInputs
    /\ structures = <<>>
    /\ verdict = NoVerdict
    /\ IdleIdentify
    /\ IdleVelocity
    /\ IdleTrackers
    /\ IdleGex
    /\ IdleBlack76
    /\ IdleFetcher
    /\ IdleLimiter

\* the caller appends one more detection to ctx['structure_detections']
AddStructure ==
    /\ verdict = NoVerdict
    /\ Len(structures) < MaxStructures
    /\ \E d \in StructureInputs : structures' = Append(structures, d)
    /\ UNCHANGED <<ctx, verdict>>

\* engine.generate_verdict(symbol, ctx)
GenerateVerdict ==
    /\ verdict = NoVerdict
    /\ verdict' = generate_verdict(ctx, structures)
    /\ UNCHANGED <<ctx, structures>>

NextVerdict ==
    \/ AddStructure /\ UNCHANGED <<identifyVars, velocityVars, trackerVars, gexVars, black76Vars, fetcherVars, limiterVars>>
    \/ GenerateVerdict /\ UNCHANGED <<identifyVars, velocityVars, trackerVars, gexVars, black76Vars, fetcherVars, limiterVars>>

SpecVerdict == InitVerdict /\ [][NextVerdict]_vars

InitIdentify ==
    /\ oi_changes = <<>>
    /\ price_change \in PriceChangeInputs
    /\ atm_strike \in AtmInputs
    /\ identified = NotCalled
    /\ IdleVerdict
    /\ IdleVelocity
    /\ IdleTrackers
    /\ IdleGex
    /\ IdleBlack76
    /\ IdleFetcher
    /\ IdleLimiter

NextIdentify ==
    \/ SetOIChange /\ UNCHANGED <<verdictVars, velocityVars, trackerVars, gexVars, black76Vars, fetcherVars, limiterVars>>
    \/ Identify /\ UNCHANGED <<verdictVars, velocityVars, trackerVars, gexVars, black76Vars, fetcherVars, limiterVars>>

SpecIdentify == InitIdentify /\ [][NextIdentify]_vars

InitVelocity ==
    /\ history = <<>>
    /\ interval \in IntervalInputs
    /\ log = <<>>
    /\ measured = NotMeasured
    /\ IdleVerdict
    /\ IdleIdentify
    /\ IdleTrackers
    /\ IdleGex
    /\ IdleBlack76
    /\ IdleFetcher
    /\ IdleLimiter

NextVelocity ==
    \/ AddSnapshot /\ UNCHANGED <<verdictVars, identifyVars, trackerVars, gexVars, black76Vars, fetcherVars, limiterVars>>
    \/ Velocity /\ UNCHANGED <<verdictVars, identifyVars, trackerVars, gexVars, black76Vars, fetcherVars, limiterVars>>

SpecVelocity == InitVelocity /\ [][NextVelocity]_vars

InitTrackers ==
    /\ trackers = NewTrackers
    /\ last_call = NoCall
    /\ IdleVerdict
    /\ IdleIdentify
    /\ IdleVelocity
    /\ IdleGex
    /\ IdleBlack76
    /\ IdleFetcher
    /\ IdleLimiter

NextTrackers ==
    \/ TrackerAddSnapshot /\ UNCHANGED <<verdictVars, identifyVars, velocityVars, gexVars, black76Vars, fetcherVars, limiterVars>>
    \/ TrackerVelocity /\ UNCHANGED <<verdictVars, identifyVars, velocityVars, gexVars, black76Vars, fetcherVars, limiterVars>>
    \/ TrackerAcceleration /\ UNCHANGED <<verdictVars, identifyVars, velocityVars, gexVars, black76Vars, fetcherVars, limiterVars>>
    \/ TrackerVelocityZScore /\ UNCHANGED <<verdictVars, identifyVars, velocityVars, gexVars, black76Vars, fetcherVars, limiterVars>>
    \/ TrackerVolumeOIDivergence /\ UNCHANGED <<verdictVars, identifyVars, velocityVars, gexVars, black76Vars, fetcherVars, limiterVars>>

SpecTrackers == InitTrackers /\ [][NextTrackers]_vars

InitDivergence == InitTrackers

NextDivergence ==
    \/ DivergenceAddSnapshot /\ UNCHANGED <<verdictVars, identifyVars, velocityVars, gexVars, black76Vars, fetcherVars, limiterVars>>
    \/ TrackerVolumeOIDivergence /\ UNCHANGED <<verdictVars, identifyVars, velocityVars, gexVars, black76Vars, fetcherVars, limiterVars>>

SpecDivergence == InitDivergence /\ [][NextDivergence]_vars

InitGex ==
    /\ option_chain = <<>>
    /\ gex_spot \in SpotInputs
    /\ exposures = NotCalculated
    /\ flip_level = NoFlipLevel
    /\ IdleVerdict
    /\ IdleIdentify
    /\ IdleVelocity
    /\ IdleTrackers
    /\ IdleBlack76
    /\ IdleFetcher
    /\ IdleLimiter

NextGex ==
    \/ AddRow /\ UNCHANGED <<verdictVars, identifyVars, velocityVars, trackerVars, black76Vars, fetcherVars, limiterVars>>
    \/ CalculateExposures /\ UNCHANGED <<verdictVars, identifyVars, velocityVars, trackerVars, black76Vars, fetcherVars, limiterVars>>
    \/ GexFlipLevel /\ UNCHANGED <<verdictVars, identifyVars, velocityVars, trackerVars, black76Vars, fetcherVars, limiterVars>>

SpecGex == InitGex /\ [][NextGex]_vars

InitBlack76 ==
    /\ b76_args \in Black76Inputs
    /\ greeks = GreeksNotCalled
    /\ iv_run = IVNotCalled
    /\ IdleVerdict
    /\ IdleIdentify
    /\ IdleVelocity
    /\ IdleTrackers
    /\ IdleGex
    /\ IdleFetcher
    /\ IdleLimiter

NextBlack76 ==
    \/ PriceAndGreeks
         /\ UNCHANGED <<verdictVars, identifyVars, velocityVars, trackerVars, gexVars, fetcherVars, limiterVars>>
    \/ ImpliedVolatility
         /\ UNCHANGED <<verdictVars, identifyVars, velocityVars, trackerVars, gexVars, fetcherVars, limiterVars>>
    \/ NewtonIteration
         /\ UNCHANGED <<verdictVars, identifyVars, velocityVars, trackerVars, gexVars, fetcherVars, limiterVars>>

SpecBlack76 == InitBlack76 /\ [][NextBlack76]_vars

InitRoundTrip ==
    /\ b76_args \in RoundTripInputs
    /\ greeks = GreeksNotCalled
    /\ iv_run = IVNotCalled
    /\ IdleVerdict
    /\ IdleIdentify
    /\ IdleVelocity
    /\ IdleTrackers
    /\ IdleGex
    /\ IdleFetcher
    /\ IdleLimiter

NextRoundTrip ==
    \/ RoundTripPrice
         /\ UNCHANGED <<verdictVars, identifyVars, velocityVars, trackerVars, gexVars, fetcherVars, limiterVars>>
    \/ RoundTripImpliedVolatility
         /\ UNCHANGED <<verdictVars, identifyVars, velocityVars, trackerVars, gexVars, fetcherVars, limiterVars>>
    \/ RoundTripIteration
         /\ UNCHANGED <<verdictVars, identifyVars, velocityVars, trackerVars, gexVars, fetcherVars, limiterVars>>

SpecRoundTrip == InitRoundTrip /\ [][NextRoundTrip]_vars

OtherThanFetcher ==
    <<verdictVars, identifyVars, velocityVars, trackerVars, gexVars, black76Vars, limiterVars>>

InitFetcher ==
    /\ cache = EmptyCache
    /\ fetch = <<>>
    /\ IdleVerdict
    /\ IdleIdentify
    /\ IdleVelocity
    /\ IdleTrackers
    /\ IdleGex
    /\ IdleBlack76
    /\ IdleLimiter

NextFetcher ==
    \/ GetOptionChain /\ UNCHANGED OtherThanFetcher
    \/ FetcherWaitAndAcquire /\ UNCHANGED OtherThanFetcher
    \/ CacheGet /\ UNCHANGED OtherThanFetcher
    \/ CacheReply /\ UNCHANGED OtherThanFetcher
    \/ UpstreamCall /\ UNCHANGED OtherThanFetcher
    \/ CacheSetex /\ UNCHANGED OtherThanFetcher
    \/ SetexReply /\ UNCHANGED OtherThanFetcher
    \/ SetexFails /\ UNCHANGED OtherThanFetcher
    \/ SleepOver /\ UNCHANGED OtherThanFetcher
    \/ CacheExpires /\ UNCHANGED OtherThanFetcher

SpecFetcher == InitFetcher /\ [][NextFetcher]_vars

OtherThanLimiter ==
    <<verdictVars, identifyVars, velocityVars, trackerVars, gexVars, black76Vars, fetcherVars>>

InitLimiter ==
    /\ clock = 0
    /\ zset = {}
    /\ callers = <<>>
    /\ IdleVerdict
    /\ IdleIdentify
    /\ IdleVelocity
    /\ IdleTrackers
    /\ IdleGex
    /\ IdleBlack76
    /\ IdleFetcher

NextLimiter ==
    \/ Acquire /\ UNCHANGED OtherThanLimiter
    \/ Pipeline /\ UNCHANGED OtherThanLimiter
    \/ Counted /\ UNCHANGED OtherThanLimiter
    \/ Zrange /\ UNCHANGED OtherThanLimiter
    \/ Oldest /\ UNCHANGED OtherThanLimiter
    \/ Wake /\ UNCHANGED OtherThanLimiter
    \/ Advance /\ UNCHANGED OtherThanLimiter

SpecLimiter == InitLimiter /\ [][NextLimiter]_vars

-----------------------------------------------------------------------------
(* Properties of the verdict engine, checked under SpecVerdict *)

\* three naked calls weigh 10.2 + 8.4 + 8.4 = 27 in exact arithmetic; the
\* float sum is 26.999999999999996, which int() takes to 26
ScoreTruncatedBelowExactSum ==
    /\ verdict # NoVerdict
    /\ StructureScore(structures, "BULLISH") = 2700
    /\ _bull_signal_strength(<<>>, structures) = 26

\* the target of a strong verdict at an ATR of 2.01: 2.01 * 2.5 is 5.025 in
\* exact arithmetic and round(, 2) of the float product is 5.02
TargetTieRoundedOnFloat ==
    /\ verdict.verdict \in {"STRONG_BUY", "STRONG_SELL"}
    /\ Get(ctx, "atr_14_pct", 200) = 201
    /\ verdict.target_move_pct = 502

\* the stop loss of a buy at spot 0.25 and ATR 2.5: 0.245 in exact
\* arithmetic, 0.24 from the float
BuyStopLossTieRoundedOnFloat ==
    /\ verdict.verdict \in {"STRONG_BUY", "BUY_WATCH"}
    /\ Get(ctx, "spot_price", 10000) = 25 /\ Get(ctx, "atr_14_pct", 200) = 250
    /\ verdict.stop_loss_level = 24

\* the stop loss of a sell at spot 25.25 and ATR 2.5: 25.755 in exact
\* arithmetic, 25.75 from the float
SellStopLossTieRoundedOnFloat ==
    /\ verdict.verdict \in {"STRONG_SELL", "SELL_WATCH"}
    /\ Get(ctx, "spot_price", 10000) = 2525 /\ Get(ctx, "atr_14_pct", 200) = 250
    /\ verdict.stop_loss_level = 2575

VerdictReturned == verdict # NoVerdict

\* the trap score as the specification words it: the sum of the triggered
\* weights, capped at 100
StatedTrapScore ==
    LET longUnwindingAfterMove ==
            /\ "oi_signal" \in DOMAIN ctx /\ ctx["oi_signal"] = "LONG_UNWINDING"
            /\ "price_change_today" \in DOMAIN ctx /\ ctx["price_change_today"] > 3
        straddleNearExpiry ==
            /\ \E i \in 1..Len(structures) : structures[i].structure = "STRADDLE"
            /\ "days_to_expiry" \in DOMAIN ctx /\ ctx["days_to_expiry"] < 2
        manyHedges ==
            Cardinality({ i \in 1..Len(structures) :
                            structures[i].structure = "PROTECTIVE_PUT_HEDGE" }) > 2
        farStrike == "atm_distance_pct" \in DOMAIN ctx /\ ctx["atm_distance_pct"] > 8
        highIvRank == "iv_rank" \in DOMAIN ctx /\ ctx["iv_rank"] > 80
        total == (IF longUnwindingAfterMove THEN 40 ELSE 0)
                 + (IF straddleNearExpiry THEN 35 ELSE 0)
                 + (IF manyHedges THEN 30 ELSE 0)
                 + (IF farStrike THEN 25 ELSE 0)
                 + (IF highIvRank THEN 20 ELSE 0)
    IN  IF total > 100 THEN 100 ELSE total

NetDirection ==
    _bull_signal_strength(ctx, structures) - _bear_signal_strength(ctx, structures)

Momentum == Get(ctx, "momentum_score", 0)

\* C1: generate_verdict returns TRAP_WARNING exactly when the stated trap
\* score (sum of triggered weights, capped at 100) exceeds 70; then
\* confidence_pct is the trap score, entry_type is SKIP and every other field
\* but the red flags is a constant, so nothing of the result depends on the
\* bull score, the bear score or the momentum score.  A score of exactly 70
\* does not give TRAP_WARNING.
C1_TrapWarningIffAbove70 ==
    VerdictReturned =>
        /\ (verdict.verdict = "TRAP_WARNING") <=> (StatedTrapScore > 70)
        /\ StatedTrapScore > 70 =>
             /\ verdict.confidence_pct = StatedTrapScore
             /\ verdict.entry_type = "SKIP"
             /\ verdict.entry_strike = NoStrike
             /\ verdict.holding_period = "N/A"
             /\ verdict.target_move_pct = 0
             /\ verdict.stop_loss_level = 0
             /\ verdict.risk_level = "HIGH"
             /\ verdict.key_reasons = <<>>
        /\ StatedTrapScore = 70 => verdict.verdict # "TRAP_WARNING"

\* a trap warning returned although direction and momentum alone would have
\* given STRONG_BUY
C1_Witness ==
    /\ VerdictReturned
    /\ verdict.verdict = "TRAP_WARNING"
    /\ verdict.confidence_pct = 75
    /\ NetDirection > 35
    /\ Momentum > 75

\* a trap score of exactly 70 (40 + 30) followed by a directional verdict
C1_WitnessSeventy ==
    /\ VerdictReturned
    /\ StatedTrapScore = 70
    /\ Cardinality({ i \in 1..Len(structures) :
                       structures[i].structure = "PROTECTIVE_PUT_HEDGE" }) = 3
    /\ verdict.verdict = "SELL_WATCH"

\* the ordered rule of the specification
StatedSelection(net, momentum) ==
    CASE net > 35 /\ momentum > 75  -> "STRONG_BUY"
      [] net > 20 /\ momentum > 60 /\ ~(net > 35 /\ momentum > 75) -> "BUY_WATCH"
      [] net < -35 /\ momentum > 75 -> "STRONG_SELL"
      [] net < -20 /\ momentum > 60 /\ ~(net < -35 /\ momentum > 75) -> "SELL_WATCH"
      [] OTHER -> "NEUTRAL"

\* C2: with a trap score of at most 70 the verdict is the first matching rule
\* of: net>35 and momentum>75 STRONG_BUY; net>20 and momentum>60 BUY_WATCH;
\* net<-35 and momentum>75 STRONG_SELL; net<-20 and momentum>60 SELL_WATCH;
\* else NEUTRAL.  Momentum of 60 or less gives NEUTRAL, and net>35 with
\* momentum in (60,75] gives BUY_WATCH.
C2_OrderedVerdictSelection ==
    (VerdictReturned /\ StatedTrapScore <= 70) =>
        /\ verdict.verdict = StatedSelection(NetDirection, Momentum)
        /\ Momentum <= 60 => verdict.verdict = "NEUTRAL"
        /\ (NetDirection > 35 /\ Momentum > 60 /\ Momentum <= 75)
             => verdict.verdict = "BUY_WATCH"

\* net above 35 with momentum in (60, 75]: BUY_WATCH, not STRONG_BUY
C2_Witness ==
    /\ VerdictReturned
    /\ StatedTrapScore <= 70
    /\ NetDirection > 35
    /\ Momentum = 75
    /\ verdict.verdict = "BUY_WATCH"

NotHedge(s) == s.structure # "PROTECTIVE_PUT_HEDGE"

WithoutHedges == SelectSeq(structures, NotHedge)

HedgeCount == Len(structures) - Len(WithoutHedges)

\* C8: the PROTECTIVE_PUT_HEDGE detections of the structure list change
\* neither the bull score nor the bear score; with and without them the trap
\* score differs only when more than two are present (by the +30), and when
\* the trap score is the same the verdict is the same.
C8_HedgesNeverScoredBearish ==
    /\ _bull_signal_strength(ctx, structures) = _bull_signal_strength(ctx, WithoutHedges)
    /\ _bear_signal_strength(ctx, structures) = _bear_signal_strength(ctx, WithoutHedges)
    /\ _compute_trap_score(ctx, structures) # _compute_trap_score(ctx, WithoutHedges)
         => /\ HedgeCount > 2
            /\ _compute_trap_score(ctx, structures)
                 = Min(100, _compute_trap_score(ctx, WithoutHedges) + 30)
    /\ (VerdictReturned
        /\ _compute_trap_score(ctx, structures) = _compute_trap_score(ctx, WithoutHedges))
         => verdict.verdict = generate_verdict(ctx, WithoutHedges).verdict

\* three hedges and a bear score that comes from the context: the verdict is
\* a trap warning only because of the hedges' +30, the scores are those of
\* the list without them
C8_Witness ==
    /\ VerdictReturned
    /\ HedgeCount = 3
    /\ _bear_signal_strength(ctx, structures) > 0
    /\ verdict.verdict = "TRAP_WARNING"
    /\ generate_verdict(ctx, WithoutHedges).verdict = "SELL_WATCH"

\* the values of ctx['gex'] and ctx['vex'] tried on the two scores
ExposureProbes == {-50000001, -20000001, -1, 0, 1, 20000001, 50000001}

\* ctx with the given keys replaced
CtxWith(changes) == changes @@ ctx

\* C21: the bull score and the bear score are built from the same additive
\* components; in particular each has an exposure-regime term (+15) and a
\* vanna-exposure term (+8): some gamma-exposure value adds 15 to the bear
\* score and some vanna-exposure value adds 8 to it, as for the bull score.
C21_BothScoresHaveExposureTerms ==
    /\ \E g \in ExposureProbes :
         _bull_signal_strength(CtxWith([gex |-> g]), structures)
           = _bull_signal_strength(CtxWith([gex |-> 0]), structures) + 15
    /\ \E v \in ExposureProbes :
         _bull_signal_strength(CtxWith([vex |-> v]), structures)
           = _bull_signal_strength(CtxWith([vex |-> 0]), structures) + 8
    /\ \E g \in ExposureProbes :
         _bear_signal_strength(CtxWith([gex |-> g]), structures)
           = _bear_signal_strength(CtxWith([gex |-> 0]), structures) + 15
    /\ \E v \in ExposureProbes :
         _bear_signal_strength(CtxWith([vex |-> v]), structures)
           = _bear_signal_strength(CtxWith([vex |-> 0]), structures) + 8

\* what the code does: only the bull score has the two exposure terms; no
\* value of gex or vex changes the bear score
C21_BearScoreIgnoresExposure ==
    /\ \E g \in ExposureProbes :
         _bull_signal_strength(CtxWith([gex |-> g]), structures)
           = _bull_signal_strength(CtxWith([gex |-> 0]), structures) + 15
    /\ \E v \in ExposureProbes :
         _bull_signal_strength(CtxWith([vex |-> v]), structures)
           = _bull_signal_strength(CtxWith([vex |-> 0]), structures) + 8
    /\ \A g, v \in ExposureProbes :
         _bear_signal_strength(CtxWith([gex |-> g, vex |-> v]), structures)
           = _bear_signal_strength(ctx, structures)

VelocityZ == Get(ctx, "velocity_zscore", 0)

\* C22: for both strong verdicts the holding period depends on the velocity
\* z-score: INTRADAY when it exceeds 2.5, 1-3 DAYS otherwise.
C22_StrongHoldingByVelocity ==
    (VerdictReturned /\ verdict.verdict \in {"STRONG_BUY", "STRONG_SELL"}) =>
        verdict.holding_period = (IF VelocityZ > 25 THEN "INTRADAY" ELSE "1-3 DAYS")

\* what the code does: STRONG_BUY is 1-3 DAYS above 2.5 and INTRADAY
\* otherwise, STRONG_SELL is 1-3 DAYS whatever the z-score
C22_StrongHoldingAsCoded ==
    VerdictReturned =>
        /\ verdict.verdict = "STRONG_BUY" =>
             verdict.holding_period = (IF VelocityZ > 25 THEN "1-3 DAYS" ELSE "INTRADAY")
        /\ verdict.verdict = "STRONG_SELL" => verdict.holding_period = "1-3 DAYS"

\* C23: entry selection is symmetric: for SELL_WATCH and STRONG_SELL the
\* entry is BEAR PUT SPREAD when the volatility rank is above 60 or days to
\* expiry is below 3, a naked long put when the volatility rank is below
\* 35, and a plain directional entry otherwise, always with the ATM strike.
C23_BearishEntryMirrorsBullish ==
    (VerdictReturned /\ verdict.verdict \in {"SELL_WATCH", "STRONG_SELL"}) =>
        LET iv_rank == Get(ctx, "iv_rank", 50)
            dte == Get(ctx, "days_to_expiry", 7)
        IN  /\ verdict.entry_strike = Get(ctx, "atm_strike", 0)
            /\ IF iv_rank > 60 \/ dte < 3 THEN verdict.entry_type = "BEAR PUT SPREAD"
               ELSE IF iv_rank < 35 THEN verdict.entry_type = "NAKED PE BUY"
               ELSE verdict.entry_type \notin {"BEAR PUT SPREAD", "NAKED PE BUY", "WAIT", "SKIP"}

\* what the code does: SELL_WATCH gets WAIT and no strike; STRONG_SELL gets
\* the spread above rank 60 and the naked put otherwise, whatever the days
\* to expiry; the bullish verdicts follow the three-way rule
C23_EntryAsCoded ==
    VerdictReturned =>
        LET iv_rank == Get(ctx, "iv_rank", 50)
            dte == Get(ctx, "days_to_expiry", 7)
            atm == Get(ctx, "atm_strike", 0)
        IN  /\ verdict.verdict = "SELL_WATCH" =>
                 (verdict.entry_type = "WAIT" /\ verdict.entry_strike = NoStrike)
            /\ verdict.verdict = "STRONG_SELL" =>
                 /\ verdict.entry_strike = atm
                 /\ verdict.entry_type
                      = (IF iv_rank > 60 THEN "BEAR PUT SPREAD" ELSE "NAKED PE BUY")
            /\ verdict.verdict \in {"BUY_WATCH", "STRONG_BUY"} =>
                 /\ verdict.entry_strike = atm
                 /\ verdict.entry_type
                      = (IF iv_rank > 60 \/ dte < 3 THEN "BULL CALL SPREAD"
                         ELSE IF iv_rank < 35 THEN "NAKED CE BUY"
                         ELSE "STOCK / CE BUY")

\* C26: every verdict record returned by generate_verdict has confidence_pct
\* within [0, 100] and at most 4 key reasons.
C26_ConfidenceAndReasonsBounded ==
    VerdictReturned =>
        /\ verdict.confidence_pct >= 0
        /\ verdict.confidence_pct <= 100
        /\ Len(verdict.key_reasons) <= 4

\* five reasons apply (OI, velocity, two structures, FII): four are kept
C26_Witness ==
    /\ VerdictReturned
    /\ verdict.verdict # "TRAP_WARNING"
    /\ Get(ctx, "oi_signal", "NONE") = "LONG_BUILDUP"
    /\ VelocityZ > 20
    /\ Len(structures) >= 2
    /\ Get(ctx, "fii_net_change", 0) > 0
    /\ verdict.key_reasons = <<"OI", "VELOCITY", "STRUCTURE", "STRUCTURE">>
    /\ verdict.confidence_pct = 95

\* C28: every TRAP_WARNING verdict carries at least one red flag: whenever
\* the trap score exceeds 70, the volatility rank is above 80 or a
\* protective-hedge detection or a straddle detection is present, the two
\* unreported trap conditions summing to 65 only.
C28_TrapWarningHasRedFlag ==
    (VerdictReturned /\ StatedTrapScore > 70) =>
        /\ verdict.verdict = "TRAP_WARNING"
        /\ Len(verdict.red_flags) >= 1
        /\ \/ Get(ctx, "iv_rank", 0) > 80
           \/ \E i \in 1..Len(structures) :
                structures[i].structure \in {"PROTECTIVE_PUT_HEDGE", "STRADDLE"}

\* long unwinding after a move (40) and a straddle near expiry (35), rank
\* not above 80, no hedge: the straddle is the only red flag
C28_Witness ==
    /\ VerdictReturned
    /\ verdict.verdict = "TRAP_WARNING"
    /\ verdict.confidence_pct = 75
    /\ verdict.red_flags = <<"STRADDLE">>

-----------------------------------------------------------------------------
(* Properties of get_option_chain, checked under SpecFetcher *)

Invocations == 1..Len(fetch)

\* C29: in get_option_chain every upstream optionChain call, each retry
\* included, is preceded by its own rate-limiter acquisition made after the
\* previous upstream call; a cache hit makes no upstream call, and one
\* invocation makes at most 3 upstream calls.
C29_EveryUpstreamCallAcquires ==
    \A i \in Invocations :
        /\ fetch[i].unacquired_calls = 0
        /\ fetch[i].acquisitions >= fetch[i].upstream_calls
        /\ fetch[i].result = "cached" => fetch[i].upstream_calls = 0
        /\ fetch[i].upstream_calls <= 3

\* what the code does: one acquisition per invocation that misses the
\* cache, made before the retry loop; the second and the third upstream
\* call of an invocation follow no acquisition of their own
C29_OneAcquisitionPerInvocation ==
    \A i \in Invocations :
        /\ fetch[i].acquisitions <= 1
        /\ fetch[i].upstream_calls <= 3
        /\ fetch[i].upstream_calls = fetch[i].acquisitions * (fetch[i].attempt + 1)
        /\ fetch[i].unacquired_calls = fetch[i].acquisitions * fetch[i].attempt
        /\ fetch[i].result = "cached" =>
             (fetch[i].upstream_calls = 0 /\ fetch[i].acquisitions = 0)
        /\ fetch[i].pc = "done" /\ fetch[i].result \in {"failed after 3 attempts", "raised"} =>
             fetch[i].upstream_calls = 3

\* data returned by the second upstream call after one acquisition
C29_RetryWithoutAcquisition ==
    \E i \in Invocations :
        /\ fetch[i].pc = "done" /\ fetch[i].result = "data"
        /\ fetch[i].acquisitions = 1
        /\ fetch[i].upstream_calls = 2
        /\ fetch[i].unacquired_calls = 1

\* a cache hit for a symbol fetched by the invocation before
C29_CacheHit ==
    /\ Len(fetch) = 2
    /\ fetch[1].result = "data"
    /\ fetch[2].symbol = fetch[1].symbol
    /\ fetch[2].result = "cached"
    /\ fetch[2].upstream_calls = 0

\* the upstream call made and answered, the entry not yet stored: the
\* invocation awaits redis.setex
C29_CalledBeforeStored ==
    /\ Len(fetch) = 1
    /\ fetch[1].pc = "setex"
    /\ fetch[1].upstream_calls = 1
    /\ cache[fetch[1].symbol] = "absent"

\* two invocations for one symbol, the second called before the first
\* stored its data: both miss the cache, both call upstream, both store
C29_TwoMissesOfOneSymbol ==
    /\ Len(fetch) = 2
    /\ fetch[1].symbol = fetch[2].symbol
    /\ \A i \in 1..2 : /\ fetch[i].pc = "done" /\ fetch[i].result = "data"
                        /\ fetch[i].upstream_calls = 1

-----------------------------------------------------------------------------
(* Properties of the rate limiter, checked under SpecLimiter *)

ReturnedCallers == {i \in 1..Len(callers) : callers[i].pc = "returned"}

\* the callers that returned in the window of ticks ending at tick t
ReturnedInWindowTo(t) ==
    {i \in ReturnedCallers : callers[i].returned_at > t - Window /\ callers[i].returned_at <= t}

\* C30: among any set of concurrent callers of wait_and_acquire for one
\* endpoint type and identifier, the number of callers that return within
\* any interval of window seconds never exceeds the burst of that endpoint
\* type.
C30_ReturnsPerWindowWithinBurst ==
    \A i \in ReturnedCallers :
        Cardinality(ReturnedInWindowTo(callers[i].returned_at)) <= Burst

\* what the code does: the entry of a caller is added before the count; a
\* caller within the burst returns when the reply of the pipeline is there;
\* a caller over it sleeps once, from the reply of zrange until the oldest
\* entry of that reply has left the window, and returns without a second
\* look at the set
C30_ReturnsAfterOneSleep ==
    /\ \A i \in 1..Len(callers) :
         callers[i].pc # "pipeline" =>
            (callers[i].now \in zset \/ callers[i].now <= clock - Window)
    /\ \A i \in ReturnedCallers :
         \/ /\ callers[i].wake = 0
            /\ callers[i].returned_at >= callers[i].now
            /\ callers[i].returned_at <= callers[i].now + MaxDelay
         \/ /\ callers[i].wake > callers[i].now + 1
            /\ callers[i].wake <= callers[i].now + MaxDelay + Window + 1
            /\ callers[i].returned_at >= callers[i].wake

\* a caller at the start and six from half a window on, a tick apart,
\* every reply at once: five return at once, two sleep and return together
\* 60.05 s after the start, which makes six returns in the window that
\* ends there
C30_SixReturnInOneWindow ==
    /\ Len(callers) = 7
    /\ ReturnedCallers = 1..7
    /\ callers[1].now = 0
    /\ \A i \in 2..7 : callers[i].now = Window \div 2 + i - 2
    /\ \A i \in 1..5 : callers[i].returned_at = callers[i].now
    /\ \A i \in 6..7 : callers[i].returned_at = Window + 1
    /\ Cardinality(ReturnedInWindowTo(Window + 1)) = 6

\* the reply of pipe.execute() takes MaxDelay ticks: a caller within the
\* burst returns that much after its clock read
C30_LateReply ==
    \E i \in ReturnedCallers :
        /\ callers[i].wake = 0
        /\ callers[i].returned_at = callers[i].now + MaxDelay

\* the pipeline of a later caller runs first: the entry of the earlier
\* caller is added when the clock and the set are past it
C30_LatePipeline ==
    \E i, j \in 1..Len(callers) :
        /\ callers[i].pc = "counted"
        /\ callers[i].now < callers[j].now
        /\ Len(callers) = 2
        /\ callers[j].pc = "returned"
        /\ callers[i].now < clock
        /\ callers[i].reply = 2

\* the oldest entry leaves the set between the read of zrange and the use
\* of its reply: the caller sleeps for the entry that is gone
C30_SleepsForRemovedEntry ==
    \E i \in 1..Len(callers) :
        /\ callers[i].pc = "sleeping"
        /\ callers[i].now = Window - 1
        /\ callers[i].wake <= Window + 1 + MaxDelay
        /\ 0 \notin zset

\* two callers read the same clock value: their pipelines add one member,
\* each counts 1 and both return
C30_SameClockShareAnEntry ==
    /\ Len(callers) = 2
    /\ callers[1].now = callers[2].now
    /\ ReturnedCallers = {1, 2}
    /\ Cardinality(zset) = 1

\* a sleeper returns later than its sleep ends
C30_Oversleep ==
    \E i \in ReturnedCallers :
        callers[i].wake > 0 /\ callers[i].returned_at > callers[i].wake

-----------------------------------------------------------------------------
(* Properties of the identifier, checked under SpecIdentify *)

IdentifyCalled == identified # NotCalled

Detections == identified.detections

\* entry i of oi_changes passes the significance filter
Significant(i) == Abs(oi_changes[i].change) > 500

SameSign(i, j) ==
    \/ oi_changes[i].change > 0 /\ oi_changes[j].change > 0
    \/ oi_changes[i].change < 0 /\ oi_changes[j].change < 0

Smaller(i, j) == Min(Abs(oi_changes[i].change), Abs(oi_changes[j].change))

Larger(i, j) == Max(Abs(oi_changes[i].change), Abs(oi_changes[j].change))

\* C3: when the OI deltas hold a significant CE key and a significant PE key
\* with same-sign, similar-size deltas (smaller above 0.4 of larger),
\* identify returns a STRADDLE (neutral, debit) if the two strikes' combined
\* distance from ATM is under 3% of ATM, and a STRANGLE_BUY otherwise.
C3_MixedPairIsStraddleOrStrangle ==
    (identified.status = "returned") =>
        \A i, j \in 1..Len(oi_changes) :
            ( /\ i < j
              /\ oi_changes[i].type # oi_changes[j].type
              /\ Significant(i) /\ Significant(j) /\ SameSign(i, j)
              /\ 10 * Smaller(i, j) > 4 * (Larger(i, j) + 1) )
            => \E n \in 1..Len(Detections) :
                 IF 100 * (Abs(oi_changes[i].strike - atm_strike)
                           + Abs(oi_changes[j].strike - atm_strike)) < 3 * atm_strike
                 THEN /\ Detections[n].structure = "STRADDLE"
                      /\ Detections[n].directional_bias = "NEUTRAL"
                      /\ Detections[n].net_premium_direction = "DEBIT"
                 ELSE Detections[n].structure = "STRANGLE_BUY"

\* what the code does instead: no detection is ever a straddle or a strangle
C3_NeverStraddleNorStrangle ==
    \A n \in 1..Len(Detections) :
        Detections[n].structure \notin {"STRADDLE", "STRANGLE_BUY"}

\* C4: for two significant same-sign CE keys whose larger OI-delta magnitude
\* is more than 2.5 times the smaller, identify returns a CALL_RATIO_SPREAD
\* detection.
C4_CallRatioSpreadReturned ==
    (identified.status = "returned") =>
        \A i, j \in 1..Len(oi_changes) :
            ( /\ i < j
              /\ oi_changes[i].type = "CE" /\ oi_changes[j].type = "CE"
              /\ Significant(i) /\ Significant(j) /\ SameSign(i, j)
              /\ 2 * Larger(i, j) > 5 * Smaller(i, j) )
            => \E n \in 1..Len(Detections) :
                 Detections[n].structure = "CALL_RATIO_SPREAD"

\* what the code does instead: no detection is ever a call ratio spread
C4_NeverCallRatioSpread ==
    \A n \in 1..Len(Detections) : Detections[n].structure # "CALL_RATIO_SPREAD"

\* C5: for exactly two CE keys at different strikes, both deltas positive and
\* above 500, the smaller more than half the larger, identify returns exactly
\* one detection: BULL_CALL_SPREAD, BULLISH, DEBIT, buy leg at the lower and
\* sell leg at the higher strike (so neither key is also a naked leg).
C5_TwoCallsAreOneBullCallSpread ==
    ( /\ IdentifyCalled
      /\ Len(oi_changes) = 2
      /\ oi_changes[1].type = "CE" /\ oi_changes[2].type = "CE"
      /\ oi_changes[1].change > 500 /\ oi_changes[2].change > 500
      /\ 2 * Smaller(1, 2) > Larger(1, 2) )
    => /\ identified.status = "returned"
       /\ Len(Detections) = 1
       /\ Detections[1].structure = "BULL_CALL_SPREAD"
       /\ Detections[1].directional_bias = "BULLISH"
       /\ Detections[1].net_premium_direction = "DEBIT"
       /\ Detections[1].buy_leg
            = Leg(Min(oi_changes[1].strike, oi_changes[2].strike), "CE")
       /\ Detections[1].sell_leg
            = Leg(Max(oi_changes[1].strike, oi_changes[2].strike), "CE")

\* the higher strike entered first, deltas 1504 and 1000: one bull call spread
C5_Witness ==
    /\ IdentifyCalled
    /\ Len(oi_changes) = 2
    /\ oi_changes[1] = [strike |-> 1010, type |-> "CE", change |-> 1504]
    /\ oi_changes[2] = [strike |-> 1000, type |-> "CE", change |-> 1000]
    /\ Len(Detections) = 1
    /\ Detections[1].structure = "BULL_CALL_SPREAD"
    /\ Detections[1].buy_leg.strike = 1000

\* the single PE key of C6 and the detection C6 states for it
SinglePutCase ==
    /\ IdentifyCalled
    /\ Len(oi_changes) = 1
    /\ oi_changes[1].type = "PE"
    /\ oi_changes[1].change > 500
    /\ price_change <= 0

StatedNakedPutBuy ==
    Detection("NAKED_PUT_BUY",
              IF 100 * Abs(oi_changes[1].strike - atm_strike) < 5 * atm_strike
              THEN 85 ELSE 70,
              Leg(oi_changes[1].strike, "PE"), NoLeg, "DEBIT", "BEARISH", "HIGH")

\* C6: for a single PE key with delta above +500 and a price change that is
\* zero or negative, identify returns exactly one detection: NAKED_PUT_BUY,
\* BEARISH, DEBIT, HIGH, confidence 0.85 when the strike is less than 5% from
\* ATM and 0.70 otherwise.
C6_SinglePutIsNakedPutBuy ==
    SinglePutCase => identified = Returned(<<StatedNakedPutBuy>>)

\* what the code does: the statement of C6 holds whenever atm_strike is not 0,
\* and with atm_strike = 0 identify raises ZeroDivisionError
C6_HoldsUnlessAtmIsZero ==
    SinglePutCase =>
        IF atm_strike = 0 THEN identified = Raised("ZeroDivisionError")
        ELSE identified = Returned(<<StatedNakedPutBuy>>)

\* C7: every PROTECTIVE_PUT_HEDGE detection returned by identify belongs to
\* an unpaired PE key whose OI delta is positive, whose strike is more than
\* 5% below ATM, seen with a price change above +1.0%; it is NEUTRAL with
\* conviction LOW, and such a key is never reported as BULLISH_PUT_WRITE.
C7_HedgeIsPositivePutSpike ==
    (identified.status = "returned") =>
        \A n \in 1..Len(Detections) :
            Detections[n].structure = "PROTECTIVE_PUT_HEDGE" =>
                /\ Detections[n].directional_bias = "NEUTRAL"
                /\ Detections[n].conviction = "LOW"
                /\ price_change > 10
                /\ \E i \in 1..Len(oi_changes) :
                     /\ oi_changes[i].type = "PE"
                     /\ oi_changes[i].strike = Detections[n].buy_leg.strike
                     /\ oi_changes[i].change > 0
                     /\ 100 * (atm_strike - oi_changes[i].strike) > 5 * atm_strike
                     /\ \A m \in 1..Len(Detections) :
                          ~( /\ Detections[m].structure = "BULLISH_PUT_WRITE"
                             /\ Detections[m].sell_leg.strike = oi_changes[i].strike )

\* what the code does: the statement of C7 without the sign of the OI delta
C7_HedgeWhateverTheSign ==
    (identified.status = "returned") =>
        \A n \in 1..Len(Detections) :
            Detections[n].structure = "PROTECTIVE_PUT_HEDGE" =>
                /\ Detections[n].directional_bias = "NEUTRAL"
                /\ Detections[n].conviction = "LOW"
                /\ price_change > 10
                /\ \E i \in 1..Len(oi_changes) :
                     /\ oi_changes[i].type = "PE"
                     /\ oi_changes[i].strike = Detections[n].buy_leg.strike
                     /\ Abs(oi_changes[i].change) > 500
                     /\ 100 * (atm_strike - oi_changes[i].strike) > 5 * atm_strike
                     /\ \A m \in 1..Len(Detections) :
                          ~( /\ Detections[m].structure = "BULLISH_PUT_WRITE"
                             /\ Detections[m].sell_leg.strike = oi_changes[i].strike )

\* C17: identify never fails because of a zero denominator: for any OI
\* deltas, also with atm_strike = 0 and a significant key left unpaired, it
\* completes and returns a list of detections.
C17_IdentifyNeverRaises ==
    IdentifyCalled => identified.status = "returned"

\* what the code does: identify raises exactly when atm_strike is 0 and a
\* significant key is left for _classify_naked
C17_RaisesExactlyOnZeroAtmLeftover ==
    IdentifyCalled =>
        ( (identified.status = "ZeroDivisionError")
          <=> ( /\ atm_strike = 0
                /\ \E i \in 1..Len(oi_changes) :
                     /\ Significant(i)
                     /\ \A j \in 1..Len(oi_changes) :
                          j # i => ~( IsCorrelated(oi_changes, KeyOf(oi_changes[Min(i, j)]),
                                                   KeyOf(oi_changes[Max(i, j)])) 
                                      /\ Significant(j) ) ) )

\* the oi_changes dict with the entries at positions i and j exchanged
SwapEntries(oi, i, j) ==
    [n \in 1..Len(oi) |-> IF n = i THEN oi[j] ELSE IF n = j THEN oi[i] ELSE oi[n]]

\* the pairs found in oi, each as the unordered set of its two keys
PairSet(oi) ==
    LET pairs == _find_correlated_pairs(_filter_significant(oi), oi)
    IN  { {pairs[n][1], pairs[n][2]} : n \in 1..Len(pairs) }

\* C19: pair discovery treats pairs as unordered: two significant keys are
\* flagged exactly when they have the same side, same-sign deltas and
\* smaller magnitude / larger magnitude > 0.4, and exchanging the insertion
\* order of two keys of oi_changes never changes the set of pairs found.
C19_PairsAreUnordered ==
    \A i, j \in 1..Len(oi_changes) :
        /\ PairSet(SwapEntries(oi_changes, i, j)) = PairSet(oi_changes)
        /\ (i < j /\ Significant(i) /\ Significant(j)) =>
             ( ({KeyOf(oi_changes[i]), KeyOf(oi_changes[j])} \in PairSet(oi_changes))
               <=> ( /\ oi_changes[i].type = oi_changes[j].type
                     /\ SameSign(i, j)
                     /\ 10 * Smaller(i, j) > 4 * Larger(i, j) ) )

\* what the code does: the ratio's denominator is max(|first|, |second| + 1),
\* first and second in insertion order
C19_PairTestFollowsInsertionOrder ==
    \A i, j \in 1..Len(oi_changes) :
        (i < j /\ Significant(i) /\ Significant(j)) =>
             ( ({KeyOf(oi_changes[i]), KeyOf(oi_changes[j])} \in PairSet(oi_changes))
               <=> ( /\ oi_changes[i].type = oi_changes[j].type
                     /\ SameSign(i, j)
                     /\ 10 * Smaller(i, j)
                          > 4 * Max(Abs(oi_changes[i].change),
                                    Abs(oi_changes[j].change) + 1) ) )

\* the keys of oi_changes named by the legs of the returned detections
LegKeys ==
    { <<Detections[n].buy_leg.strike, Detections[n].buy_leg.type>> :
        n \in { m \in 1..Len(Detections) : Detections[m].buy_leg # NoLeg } }
    \cup
    { <<Detections[n].sell_leg.strike, Detections[n].sell_leg.type>> :
        n \in { m \in 1..Len(Detections) : Detections[m].sell_leg # NoLeg } }

\* the keys that survive the significance filter
Survivors ==
    LET significant == _filter_significant(oi_changes)
    IN  { KeyOf(significant[n]) : n \in 1..Len(significant) }

\* C20 (as stated): the significance filter discards a key exactly when its
\* absolute OI delta is below 500: every key with absolute delta of 500 or
\* more survives, and no key with absolute delta below 500 is a leg of a
\* detection.
C20_DiscardedBelowFiveHundred ==
    /\ \A i \in 1..Len(oi_changes) :
         (KeyOf(oi_changes[i]) \in Survivors) <=> (Abs(oi_changes[i].change) >= 500)
    /\ \A i \in 1..Len(oi_changes) :
         Abs(oi_changes[i].change) < 500 => KeyOf(oi_changes[i]) \notin LegKeys

\* C20 (amended): the significance filter discards a key exactly when its
\* absolute OI delta is 500 or less: every key with absolute delta above 500
\* survives, and no key with absolute delta of 500 or less is a leg of a
\* detection.
C20_DiscardedAtOrBelowFiveHundred ==
    /\ \A i \in 1..Len(oi_changes) :
         (KeyOf(oi_changes[i]) \in Survivors) <=> (Abs(oi_changes[i].change) > 500)
    /\ \A i \in 1..Len(oi_changes) :
         Abs(oi_changes[i].change) <= 500 => KeyOf(oi_changes[i]) \notin LegKeys

\* deltas 500 and 501 on two strikes: only the key with 501 is a leg
C20_Witness ==
    /\ identified.status = "returned"
    /\ Len(oi_changes) = 2
    /\ oi_changes[1].change = 500
    /\ oi_changes[2].change = 501
    /\ oi_changes[1].strike # oi_changes[2].strike
    /\ LegKeys = {KeyOf(oi_changes[2])}

-----------------------------------------------------------------------------
(* Properties of a set of trackers, checked under SpecTrackers *)

\* C11: only add_snapshot changes tracker state, and only the history of the
\* tracker it is called on: velocity, acceleration, velocity_zscore and
\* volume_oi_divergence leave every history unchanged, and add_snapshot on
\* one key leaves the histories of all other keys unchanged, in any
\* interleaving of calls on distinct keys.
C11_OnlyAddSnapshotChangesOwnHistory ==
    [][ /\ last_call'.op # "add_snapshot" => trackers' = trackers
        /\ \A k \in TrackerKeys :
             trackers'[k] # trackers[k] =>
                 /\ last_call'.op = "add_snapshot"
                 /\ last_call'.key = k
                 /\ Len(trackers[k]) < 60 => trackers[k] = SubSeq(trackers'[k], 1, Len(trackers[k]))
      ]_vars

\* a z-score other than 0 was read from one tracker while the other tracker
\* holds a different, shorter history
C11_Witness ==
    /\ last_call.op = "velocity_zscore"
    /\ last_call.key = <<"NIFTY", 19500, "CE">>
    /\ last_call.result.zscore # ZeroZScore
    /\ Len(trackers[<<"NIFTY", 19500, "CE">>]) = 16
    /\ Len(trackers[<<"NIFTY", 19500, "PE">>]) = 2

\* the 5-bar window velocities of a history, oldest first: OI change over
\* five snapshots per minute elapsed (at least one minute)
StatedRollingSeries(h) ==
    [n \in 1..(Len(h) - 5) |->
        Fraction((h[n + 5][2] - h[n][2]) * 60, Max(h[n + 5][1] - h[n][1], 60))]

\* the variance as the mean of the squares less the square of the mean
StatedVariance(xs) ==
    LET squares == [i \in 1..Len(xs) |-> FracMul(xs[i], xs[i])]
    IN  FracSub(Mean(squares), FracMul(Mean(xs), Mean(xs)))

ZScoreRead == last_call.op = "velocity_zscore"

\* C24: velocity_zscore returns 0 unless the rolling series of 5-bar window
\* velocities has at least 10 entries, i.e. whenever the history holds fewer
\* than 15 snapshots, and returns 0 when that series has zero standard
\* deviation; otherwise it returns (velocity(15) - mean of the series) over
\* the standard deviation of the series.
C24_ZScoreOfRollingSeries ==
    ZScoreRead =>
        LET h == trackers[last_call.key]
            series == StatedRollingSeries(h)
            z == last_call.result.zscore
            constant == \A i, j \in 1..Len(series) :
                            Normalize(series[i]) = Normalize(series[j])
        IN  /\ Len(series) >= 10 <=> Len(h) >= 15
            /\ Len(h) < 15 => z = ZeroZScore
            /\ (Len(h) >= 15 /\ constant) => z = ZeroZScore
            /\ (Len(h) >= 15 /\ ~constant) =>
                 /\ z.variance = StatedVariance(series)
                 /\ z.variance.num > 0
                 /\ z.diff = FracSub(velocity(h, 15), Mean(series))

\* a z-score other than 0 read from a history of exactly 15 snapshots
C24_Witness ==
    /\ ZScoreRead
    /\ Len(trackers[last_call.key]) = 15
    /\ last_call.result.zscore # ZeroZScore
    /\ last_call.result.zscore.diff.num < 0

\* the rolling velocities of the tracker read last are all the same number
SteadyRead ==
    LET series == StatedRollingSeries(trackers[last_call.key])
    IN  \A i, j \in 1..Len(series) : Normalize(series[i]) = Normalize(series[j])

\* a z-score read from 15 snapshots or more of steady growth is 0, 1 or -1:
\* the float mean of the series is either the repeated velocity itself or a
\* neighbouring float, and then every deviation is that same difference
C24_SteadySeriesScoresZeroOrUnit ==
    (ZScoreRead /\ Len(trackers[last_call.key]) >= 15 /\ SteadyRead) =>
        LET z == last_call.result.zscore
        IN  \/ z = ZeroZScore
            \/ /\ z.variance.den = 1
               /\ z.diff.den = 1
               /\ z.diff.num * z.diff.num = z.variance.num

\* a z-score of 0 read from 15 snapshots of steady growth
C24_WitnessZeroDeviation ==
    /\ ZScoreRead
    /\ Len(trackers[last_call.key]) = 15
    /\ SteadyRead
    /\ last_call.result.zscore = ZeroZScore

\* a z-score of -1 read from 16 snapshots of steady growth
C24_SteadyGrowthScoresMinusOne ==
    /\ ZScoreRead
    /\ Len(trackers[last_call.key]) = 16
    /\ SteadyRead
    /\ last_call.result.zscore = ZScore(Fraction(-1, 1), Fraction(1, 1))

\* a z-score of 0 read from 14 snapshots of uneven growth
C24_WitnessTooShort ==
    /\ ZScoreRead
    /\ Len(trackers[last_call.key]) = 14
    /\ trackers[last_call.key][2][2] - trackers[last_call.key][1][2] = 10
    /\ last_call.result.zscore = ZeroZScore

-----------------------------------------------------------------------------
(* Properties of volume_oi_divergence, checked under SpecDivergence *)

DivergenceRead == last_call.op = "volume_oi_divergence"

\* the band of one snapshot: ratio = volume / OI, an OI of zero or less
\* counting as 1; the comparisons are those of the ratio with 1.2, 0.6, 0.3
StatedBand(snapshot) ==
    LET oi == IF snapshot[2] <= 0 THEN 1 ELSE snapshot[2]
        volume == snapshot[3]
    IN  CASE 5 * volume > 6 * oi -> "EXTREME_FRESH"
          [] 5 * volume <= 6 * oi /\ 5 * volume > 3 * oi -> "MOSTLY_FRESH"
          [] 5 * volume <= 3 * oi /\ 10 * volume > 3 * oi -> "MIXED"
          [] OTHER -> "MOSTLY_CLOSING"

\* C25: volume_oi_divergence always returns one of the four bands, and the
\* band is that of the ratio volume / OI of the latest snapshot (an OI of
\* zero or less treated as 1); earlier snapshots never affect the result.
C25_AlwaysOneOfFourBands ==
    DivergenceRead =>
        /\ last_call.result.band
             \in {"EXTREME_FRESH", "MOSTLY_FRESH", "MIXED", "MOSTLY_CLOSING"}
        /\ trackers[last_call.key] # <<>> =>
             last_call.result.band
               = StatedBand(trackers[last_call.key][Len(trackers[last_call.key])])

\* C25 (amended): on a history with at least one snapshot the result is one
\* of the four bands, that of the latest snapshot alone; on an empty history
\* the result is UNKNOWN.
C25_FourBandsOfLatestUnlessEmpty ==
    DivergenceRead =>
        LET h == trackers[last_call.key]
        IN  /\ h = <<>> => last_call.result.band = "UNKNOWN"
            /\ h # <<>> =>
                 /\ last_call.result.band
                      \in {"EXTREME_FRESH", "MOSTLY_FRESH", "MIXED", "MOSTLY_CLOSING"}
                 /\ last_call.result.band = StatedBand(h[Len(h)])

\* MIXED read after a snapshot of ratio 0.3001 that follows one of ratio
\* 1.2001
C25_Witness ==
    /\ DivergenceRead
    /\ trackers[last_call.key] = << <<180, 10000, 12001>>, <<360, 10000, 3001>> >>
    /\ last_call.result.band = "MIXED"

\* MOSTLY_FRESH read for a volume of 1 on an OI below zero
C25_WitnessNoOpenInterest ==
    /\ DivergenceRead
    /\ Len(trackers[last_call.key]) = 2
    /\ trackers[last_call.key][2][2] = -5
    /\ last_call.result.band = "MOSTLY_FRESH"

\* UNKNOWN read from a tracker without snapshots
C25_WitnessEmptyHistory ==
    /\ DivergenceRead
    /\ trackers[last_call.key] = <<>>
    /\ last_call.result.band = "UNKNOWN"

-----------------------------------------------------------------------------
(* Properties of the exposure engine, checked under SpecGex *)

\* sum over the rows of (-ce_gamma * call_oi + pe_gamma * put_oi) * lot_size * spot^2
RECURSIVE StatedGexSum(_, _)
StatedGexSum(chain, s) ==
    IF chain = <<>> THEN 0
    ELSE LET row == Head(chain)
             lot == IF "lot_size" \in DOMAIN row THEN row["lot_size"] ELSE 50
             calls == IF {"ce_gamma", "call_oi"} \subseteq DOMAIN row
                      THEN row["ce_gamma"] * row["call_oi"] ELSE 0
             puts == IF {"pe_gamma", "put_oi"} \subseteq DOMAIN row
                     THEN row["pe_gamma"] * row["put_oi"] ELSE 0
         IN  (puts - calls) * lot * s * s + StatedGexSum(Tail(chain), s)

\* the row without the keys in gone
Without(row, gone) == [k \in DOMAIN row \ gone |-> row[k]]

\* the row of the example: call gamma 0.002, call OI 1000, put gamma 0.002,
\* put OI 500, lot 50
IsExampleRow(row) ==
    /\ Get(row, "ce_gamma", 0) = 2 /\ Get(row, "call_oi", 0) = 10
    /\ Get(row, "pe_gamma", 0) = 2 /\ Get(row, "put_oi", 0) = 5
    /\ Get(row, "lot_size", 0) = 50

\* ten times |n| as limbs: the stated sum n is held in tens
TensOf(n) == Trim(BigMulSmall(BigOfInt(Abs(n)), 10, 0))

\* the magnitude of the float a to the nearest whole number, as limbs
NearestWhole(a) ==
    IF a.s = 0 THEN <<>>
    ELSE IF a.e >= 0 THEN BigShl(a.m, a.e)
    ELSE BigRoundShr(a.m, -a.e)

\* the float a is the number 10 * n
IsTens(a, n) ==
    /\ a.s = (IF n > 0 THEN 1 ELSE IF n < 0 THEN -1 ELSE 0)
    /\ a.s # 0 => (IF a.e >= 0 THEN BigShl(a.m, a.e) = TensOf(n)
                   ELSE a.m = BigShl(TensOf(n), -a.e))

\* the float a is 10 * n to the nearest whole number, and has the sign of n
\* unless n is 0
IsNearlyTens(a, n) ==
    /\ NearestWhole(a) = TensOf(n)
    /\ n > 0 => a.s = 1
    /\ n < 0 => a.s = -1

\* calls contribute a non-positive and puts a non-negative amount, and a
\* row with equal call and put gamma and OI nets to zero
SidesOfRow(row, s) ==
    /\ calculate_exposures(<<Without(row, {"pe_gamma", "put_oi"})>>, s).gex.s <= 0
    /\ calculate_exposures(<<Without(row, {"ce_gamma", "call_oi"})>>, s).gex.s >= 0
    /\ ( /\ Get(row, "ce_gamma", 0) = Get(row, "pe_gamma", 0)
         /\ Get(row, "call_oi", 0) = Get(row, "put_oi", 0) )
       => calculate_exposures(<<row>>, s).gex = FZero

C12_ResidueOfCancellingRows ==
    /\ exposures.status = "returned"
    /\ Len(option_chain) = 2
    /\ gex_spot = 190
    /\ StatedGexSum(option_chain, gex_spot) = 0
    /\ exposures.gex = Double(-1, BigShl(<<1>>, 52), -74)

ChainStrikes == { option_chain[i]["strike"] : i \in 1..Len(option_chain) }

\* the running cumulative gamma exposure at strike k: the gex of the rows
\* with a strike up to k
CumulativeGexAt(k) ==
    LET UpToK(row) == row["strike"] <= k
    IN  StatedGexSum(SelectSeq(option_chain, UpToK), gex_spot)

AdjacentStrikes(a, b) ==
    /\ a \in ChainStrikes /\ b \in ChainStrikes /\ a < b
    /\ ~\E c \in ChainStrikes : a < c /\ c < b

OppositeSigns(a, b) ==
    \/ CumulativeGexAt(a) > 0 /\ CumulativeGexAt(b) < 0
    \/ CumulativeGexAt(a) < 0 /\ CumulativeGexAt(b) > 0

\* C13: gex_flip_level, for rows with distinct strikes in any order, returns
\* the midpoint of the first pair of adjacent ascending strikes across which
\* the running cumulative gamma exposure changes sign; whenever the running
\* sum is strictly positive at one strike and strictly negative at a later
\* strike (or the reverse) the result is a nonzero level between two
\* adjacent strikes, and it is 0 only when no sign change exists.
C13_FlipAtEverySignChange ==
    (flip_level.status = "returned") =>
        /\ (\E a, b \in ChainStrikes : a < b /\ OppositeSigns(a, b))
             => /\ flip_level.level # 0
                /\ \E a, b \in ChainStrikes :
                     AdjacentStrikes(a, b) /\ flip_level.level = a + b
        /\ flip_level.level = 0
             => ~\E a, b \in ChainStrikes : a < b /\ OppositeSigns(a, b)
        /\ \A a, b \in ChainStrikes :
             ( /\ AdjacentStrikes(a, b) /\ OppositeSigns(a, b)
               /\ ~\E c, d \in ChainStrikes :
                     d <= a /\ AdjacentStrikes(c, d) /\ OppositeSigns(c, d) )
             => flip_level.level = a + b

\* the sign of the running sum at strike k as the code computes it
RunningSignAt(k) ==
    LET sorted_chain == SortedByStrike(option_chain)
        i == CHOOSE j \in 1..Len(sorted_chain) : sorted_chain[j]["strike"] = k
    IN  GexProfile(sorted_chain, gex_spot)[i][3]

ComputedOpposite(a, b) == RunningSignAt(a) * RunningSignAt(b) < 0

\* what the code does: the level is the midpoint of the first two adjacent
\* strikes whose computed running sums are strictly of opposite sign, and 0
\* when no two adjacent strikes are.  A computed running sum has the sign of
\* the stated sum unless that sum is 0: it is then 0 or a rounding residue.
C13_FlipOnlyAtAdjacentStrictChange ==
    (flip_level.status = "returned") =>
        /\ \A a, b \in ChainStrikes :
             ( /\ AdjacentStrikes(a, b) /\ ComputedOpposite(a, b)
               /\ ~\E c, d \in ChainStrikes :
                     d <= a /\ AdjacentStrikes(c, d) /\ ComputedOpposite(c, d) )
             => flip_level.level = a + b
        /\ (~\E a, b \in ChainStrikes : AdjacentStrikes(a, b) /\ ComputedOpposite(a, b))
             => flip_level.level = 0
        /\ \A k \in ChainStrikes :
             /\ CumulativeGexAt(k) > 0 => RunningSignAt(k) = 1
             /\ CumulativeGexAt(k) < 0 => RunningSignAt(k) = -1

\* the running sum is positive at 19000, 0 at 19100 and negative at 19200,
\* all three computed without rounding residue, and no level is returned
C13_ExactZeroHidesTheCrossing ==
    /\ flip_level = FlipLevel("returned", 0)
    /\ ChainStrikes = {19000, 19100, 19200}
    /\ CumulativeGexAt(19000) > 0 /\ RunningSignAt(19100) = 0
    /\ CumulativeGexAt(19200) < 0

\* the running sum is positive at 19000 and 0 at 19100, where the code
\* computes a negative residue and returns the level 19050
C13_ResidueMakesALevel ==
    /\ flip_level = FlipLevel("returned", 38100)
    /\ ChainStrikes = {19000, 19100}
    /\ CumulativeGexAt(19000) > 0
    /\ CumulativeGexAt(19100) = 0
    /\ RunningSignAt(19100) = -1

HasRowWithoutStrike ==
    \E i \in 1..Len(option_chain) : "strike" \notin DOMAIN option_chain[i]

\* C14: a chain containing a row that has no strike is rejected: both
\* calculate_exposures and gex_flip_level fail with an error on such a chain
\* instead of returning numeric results.
C14_RowWithoutStrikeRejected ==
    HasRowWithoutStrike =>
        /\ exposures.status # "returned"
        /\ flip_level.status # "returned"

\* what the code does: gex_flip_level raises KeyError on such a chain,
\* calculate_exposures never raises
C14_OnlyFlipLevelRejects ==
    /\ exposures.status \in {"not called", "returned"}
    /\ flip_level.status # "not called" =>
         ((flip_level.status = "KeyError") <=> HasRowWithoutStrike)

-----------------------------------------------------------------------------
(* Properties of the Black-76 engine, checked under SpecBlack76 *)

IVCalled == iv_run.pc # "not called"

\* max(0, F - K) for CE, max(0, K - F) for PE
Intrinsic ==
    IF b76_args.option_type = "CE"
    THEN (IF b76_args.F > b76_args.K THEN b76_args.F - b76_args.K ELSE 0)
    ELSE (IF b76_args.K > b76_args.F THEN b76_args.K - b76_args.F ELSE 0)

\* C15 (as stated): implied_volatility returns the floor 0.001 without any
\* pricing iteration whenever the market price is at or below the intrinsic
\* value, also for market prices that are zero or negative.
C15_FloorAtOrBelowIntrinsic ==
    (IVCalled /\ b76_args.market_price <= Intrinsic) =>
        /\ iv_run.pc = "done" /\ iv_run.status = "returned"
        /\ iv_run.evaluations = 0
        /\ iv_run.sigma = "0.001"

\* C15 (amended): whenever the market price is at or below the intrinsic
\* value implied_volatility returns without any pricing iteration: the floor
\* 0.001 when T > 0 and the market price is positive, and 0.0 when T <= 0 or
\* the market price is zero or negative.
C15_FloorForPositivePriceOnly ==
    (IVCalled /\ b76_args.market_price <= Intrinsic) =>
        /\ iv_run.pc = "done" /\ iv_run.status = "returned"
        /\ iv_run.evaluations = 0
        /\ iv_run.sigma = IF b76_args.T > 0 /\ b76_args.market_price > 0 THEN "0.001" ELSE "0.0"

\* a call priced exactly at its intrinsic value of 100 points, a week out
C15_Witness ==
    /\ IVCalled
    /\ b76_args.option_type = "CE" /\ b76_args.F = 23500 /\ b76_args.K = 23400
    /\ b76_args.market_price = 100 /\ b76_args.T = 168
    /\ iv_run.sigma = "0.001"
    /\ iv_run.evaluations = 0

\* C16: price_and_greeks never raises for numerically degenerate inputs: for
\* every numeric input, also T <= 0, sigma <= 0 and a zero strike, it
\* returns a GreekResult, treating T <= 0 as one hour in years and
\* sigma <= 0 as 0.001.
C16_PriceAndGreeksNeverRaises ==
    (greeks # GreeksNotCalled) =>
        /\ greeks.status = "returned"
        /\ greeks.T = (IF b76_args.T <= 0 THEN 1 ELSE b76_args.T)
        /\ greeks.sigma = (IF b76_args.sigma <= 0 THEN 1 ELSE b76_args.sigma)

\* what the code does: it raises ZeroDivisionError exactly for a zero strike
C16_RaisesExactlyOnZeroStrike ==
    (greeks # GreeksNotCalled) =>
        /\ (greeks.status = "ZeroDivisionError") <=> (b76_args.K = 0)
        /\ b76_args.K # 0 =>
             /\ greeks.status = "returned"
             /\ greeks.T = (IF b76_args.T <= 0 THEN 1 ELSE b76_args.T)
             /\ greeks.sigma = (IF b76_args.sigma <= 0 THEN 1 ELSE b76_args.sigma)

\* C18: implied_volatility always terminates: past its guards it evaluates
\* the pricing model at most 100 times, stops early when the price error is
\* below 1e-8 or the un-scaled vega magnitude below 1e-10, after the 100th
\* evaluation returns its last estimate instead of raising, and every
\* estimate produced by a Newton update lies in [0.001, 5.0].
C18_AtMostHundredEvaluations ==
    /\ iv_run.evaluations <= 100
    /\ iv_run.pc = "loop" => iv_run.evaluations < 100
    /\ iv_run.exit \in {"converged", "flat_vega"} =>
         /\ iv_run.pc = "done" /\ iv_run.status = "returned"
         /\ iv_run.evaluations >= 1
    /\ iv_run.evaluations = 100 =>
         /\ iv_run.pc = "done" /\ iv_run.status = "returned"
         /\ iv_run.sigma \in BandEstimates
    /\ iv_run.updates_in_band
    /\ (iv_run.evaluations > 0 /\ iv_run.status # "ZeroDivisionError") =>
         iv_run.sigma \in BandEstimates

\* the search did not converge: 100 evaluations, the last estimate returned
C18_Witness ==
    /\ iv_run.pc = "done"
    /\ iv_run.exit = "exhausted"
    /\ iv_run.evaluations = 100
    /\ iv_run.status = "returned"
    /\ iv_run.sigma = "5.0"

\* the search stopped early on a vanishing vega
C18_WitnessFlatVega ==
    /\ iv_run.exit = "flat_vega"
    /\ iv_run.evaluations = 3
    /\ iv_run.sigma = "0.001"

\* the search converged at the fifth evaluation on an estimate inside the
\* band, as for a call at 23400 priced 150 with the future at 23500
C18_WitnessConverged ==
    /\ b76_args.market_price = 150 /\ b76_args.F = 23500 /\ b76_args.K = 23400
    /\ b76_args.T = 168 /\ b76_args.option_type = "CE"
    /\ iv_run.exit = "converged"
    /\ iv_run.evaluations = 5
    /\ iv_run.sigma = "inside"

-----------------------------------------------------------------------------
(* Properties of the round trip, checked under SpecRoundTrip *)

InsideBand == b76_args.T > 0 /\ b76_args.sigma > 1 /\ b76_args.sigma < 5000

\* the estimate may be the volatility s given in thousandths
EstimateMayBe(estimate, s) ==
    \/ estimate = "0.001" /\ s = 1
    \/ estimate = "0.30" /\ s = 300
    \/ estimate = "5.0" /\ s = 5000
    \/ estimate = "inside" /\ s > 1 /\ s < 5000

\* C27: implied_volatility is a left inverse of the price output of
\* price_and_greeks: for every F, K, T > 0, side and every volatility s
\* strictly inside (0.001, 5.0), price_and_greeks gives a price and
\* implied_volatility of that price returns s.
C27_RoundTripReturnsVolatility ==
    InsideBand =>
        /\ greeks # GreeksNotCalled => greeks.status = "returned"
        /\ iv_run.pc = "done" =>
             /\ iv_run.status = "returned"
             /\ EstimateMayBe(iv_run.sigma, b76_args.sigma)

\* what the code does: an in-the-money price at or below the undiscounted
\* intrinsic value gives 0.001 and a price of 0.0 gives 0.0, both without
\* any pricing evaluation
C27_GuardsCutTheRoundTrip ==
    InsideBand =>
        /\ greeks # GreeksNotCalled => greeks.status = "returned"
        /\ (IVCalled /\ b76_args.market_price <= 0) =>
             (iv_run.pc = "done" /\ iv_run.sigma = "0.0" /\ iv_run.evaluations = 0)
        /\ (IVCalled /\ b76_args.market_price > 0 /\ b76_args.market_price <= Intrinsic) =>
             (iv_run.pc = "done" /\ iv_run.sigma = "0.001" /\ iv_run.evaluations = 0)
        /\ (IVCalled /\ b76_args.market_price > 0 /\ b76_args.market_price > Intrinsic) =>
             (iv_run.pc = "done" => iv_run.evaluations >= 1)

\* the floor 0.001 returned for the price of a call 1500 points in the
\* money at volatility 0.15
C27_FloorForInTheMoneyPrice ==
    /\ b76_args.option_type = "CE" /\ b76_args.K = 22000 /\ b76_args.sigma = 150
    /\ greeks.status = "returned"
    /\ b76_args.market_price = 1500
    /\ iv_run.pc = "done" /\ iv_run.sigma = "0.001" /\ iv_run.evaluations = 0

\* a round trip that gives the volatility back: the price at 0.30 is found
\* again by the first evaluation
C27_VolatilityRecovered ==
    /\ b76_args.sigma = 300
    /\ iv_run.pc = "done" /\ iv_run.exit = "converged"
    /\ iv_run.evaluations = 1
    /\ iv_run.sigma = "0.30"

-----------------------------------------------------------------------------
(* Properties of the velocity engine, checked under SpecVelocity *)

\* C9: after n add_snapshot calls the history is the (timestamp, OI, volume)
\* triples of the most recent min(n, 60) snapshots in insertion order; its
\* length never exceeds 60, so each append beyond capacity evicts exactly the
\* oldest entry.
C9_HistoryIsLastSixty ==
    LET n == Len(log)
        kept == IF n < 60 THEN n ELSE 60
    IN  /\ Len(history) = kept
        /\ Len(history) <= 60
        /\ \A i \in 1..kept : history[i] = log[n - kept + i]

\* more than 60 snapshots added: the two oldest are gone
C9_Witness ==
    /\ Len(log) = 62
    /\ Len(history) = 60
    /\ history[1] = log[3]

Measured == measured # NotMeasured

\* the samples whose timestamps fall within the most recent window
InWindow(w) ==
    { i \in 1..Len(history) : history[i][1] >= history[Len(history)][1] - 60 * w }

\* measured.value = n / d, with d > 0
ValueIs(n, d) == measured.value.num * d = n * measured.value.den

\* C10 (as stated): velocity is (latest OI - earliest in-window OI) divided by
\* the minutes between those two samples, over the samples whose timestamps
\* fall within the most recent windowMinutes, and 0 when fewer than 2 samples
\* fall in the window.
C10_WindowByTimestamps ==
    Measured =>
        LET in == InWindow(measured.window)
            first == CHOOSE i \in in : \A j \in in : i <= j
            last == Len(history)
        IN  IF Cardinality(in) < 2 THEN ValueIs(0, 1)
            ELSE ValueIs((history[last][2] - history[first][2]) * 60,
                         history[last][1] - history[first][1])

\* C10 (amended): velocity is computed from the last
\* min(len, max(1, windowMinutes // 3) + 1) samples whatever their
\* timestamps: (latest OI - OI of the first of them) divided by the minutes
\* between the two, the divisor being at least 1; 0 when the history holds
\* fewer than 2 samples.  For 10000, 10100, 15000 at 5-minute spacing and a
\* 15-minute window the result is 500.
C10_WindowByBars ==
    Measured =>
        LET n == Len(history)
            bars == IF measured.window \div 3 < 1 THEN 1 ELSE measured.window \div 3
            k == IF bars + 1 < n THEN bars + 1 ELSE n
            seconds == history[n][1] - history[n - k + 1][1]
        IN  /\ n < 2 => ValueIs(0, 1)
            /\ n >= 2 =>
                 ValueIs((history[n][2] - history[n - k + 1][2]) * 60,
                         IF seconds < 60 THEN 60 ELSE seconds)
            /\ ( /\ measured.window = 15
                 /\ history = << <<300, 10000, 500>>, <<600, 10100, 600>>,
                                 <<900, 15000, 5000>> >> )
                 => ValueIs(500, 1)

\* 5-minute spacing, 15-minute window, 7 samples: the six samples used span
\* 25 minutes and the measured velocity is not the one over the last 15 minutes
C10_Witness ==
    /\ Measured
    /\ measured.window = 15
    /\ interval = 300
    /\ Len(history) = 7
    /\ Cardinality(InWindow(15)) = 4
    /\ ValueIs((history[7][2] - history[2][2]) * 60, 1500)
    /\ ~ValueIs((history[7][2] - history[4][2]) * 60, 900)

====
